---- MODULE Spec2Model ----
(***************************************************************************)
(* fx-cli: the profile store (ConfigManager and the config / auth          *)
(* commands that write through it), the response parser and the auth      *)
(* service.                                                                *)
(*                                                                         *)
(* JavaScript values are modelled as follows.  A string is a TLA+ string.  *)
(* An object is a function from the keys it has to their values, so a key  *)
(* that is undefined is a key outside the DOMAIN.  An array is a sequence. *)
(***************************************************************************)
EXTENDS Integers, Sequences, FiniteSets, TLC

VARIABLES
    file,           \* ~/.fxk/config.json: absent, unparsable, or a JSON document
    defaultConfig,  \* ConfigManager.defaultConfig of the running process
    last,           \* the last command run and how it ended
    calls,          \* calls made so far on a long-lived ConfigManager
    raw,            \* the raw response body handed to the parser
    result,         \* the value the last parser, factory or service call returned
    pc,             \* where the running service call is
    requests        \* the HTTP requests the running or last service call issued

vars == <<file, defaultConfig, last, calls, raw, result, pc, requests>>

(***************************************************************************)
(* Bounds of the model.                                                    *)
(***************************************************************************)
MaxProfiles == 2   \* profiles in the list before config --add is no longer tried
MaxCalls == 3      \* calls made on one long-lived ConfigManager

ProfileNames == {"default", "work"}
\* key=value pairs handed to setProfileValue
StringKeys == {"corpId"}
StringValues == {"", "c1"}
TimeoutInputs == {"1000", "-5", "abc", "1000px"}

(***************************************************************************)
(* JSON / JavaScript values that cross the parser: each carries its type.  *)
(***************************************************************************)
JUndefined == [t |-> "undefined"]
JNull == [t |-> "null"]
JBool(b) == [t |-> "boolean", b |-> b]
JNum(n) == [t |-> "number", n |-> n]
JStr(s) == [t |-> "string", s |-> s]
JObj(o) == [t |-> "object", o |-> o]
JArr(a) == [t |-> "array", a |-> a]

\* typeof v
TypeOf(v) == IF v.t \in {"null", "array"} THEN "object" ELSE v.t

\* !!v
Truthy(v) ==
    CASE v.t = "undefined" -> FALSE
      [] v.t = "null"      -> FALSE
      [] v.t = "boolean"   -> v.b
      [] v.t = "number"    -> v.n # 0
      [] v.t = "string"    -> v.s # ""
      [] v.t = "object"    -> TRUE
      [] v.t = "array"     -> TRUE

\* v.key, for a v that is not null or undefined
Get(v, key) == IF v.t = "object" /\ key \in DOMAIN v.o THEN v.o[key] ELSE JUndefined

\* `${v}`; an array is the texts of its elements joined by commas, null and
\* undefined elements being empty
RECURSIVE Template(_)
Template(v) ==
    CASE v.t = "undefined" -> "undefined"
      [] v.t = "null"      -> "null"
      [] v.t = "boolean"   -> IF v.b THEN "true" ELSE "false"
      [] v.t = "number"    -> ToString(v.n)
      [] v.t = "string"    -> v.s
      [] v.t = "object"    -> "[object Object]"
      [] v.t = "array"     ->
            LET text(i) == IF v.a[i].t \in {"null", "undefined"} THEN ""
                           ELSE Template(v.a[i])
                join[i \in 0..Len(v.a)] ==
                    IF i = 0 THEN ""
                    ELSE IF i = 1 THEN text(1)
                    ELSE join[i - 1] \o "," \o text(i)
            IN  join[Len(v.a)]

(***************************************************************************)
(* parseInt(value, 10)                                                     *)
(***************************************************************************)
\* the characters of the strings that are handed to parseInt
Chars(s) ==
    CASE s = "1000"  -> <<"1", "0", "0", "0">>
      [] s = "-5"    -> <<"-", "5">>
      [] s = "abc"   -> <<"a", "b", "c">>
      [] s = "0"     -> <<"0">>
      [] s = " 12px" -> <<" ", "1", "2", "p", "x">>
      [] s = "1000px" -> <<"1", "0", "0", "0", "p", "x">>
      [] s = ""      -> <<>>
      [] s = "tok"   -> <<"t", "o", "k">>
      [] s = "default" -> <<"d", "e", "f", "a", "u", "l", "t">>
      [] s = "work"  -> <<"w", "o", "r", "k">>

DigitChars == <<"0", "1", "2", "3", "4", "5", "6", "7", "8", "9">>
IsDigit(c) == \E i \in 1..10 : DigitChars[i] = c
DigitVal(c) == (CHOOSE i \in 1..10 : DigitChars[i] = c) - 1
IsWhiteSpace(c) == c \in {" ", "\t", "\n"}

RECURSIVE SkipWhiteSpace(_)
SkipWhiteSpace(cs) ==
    IF cs # <<>> /\ IsWhiteSpace(Head(cs)) THEN SkipWhiteSpace(Tail(cs)) ELSE cs

\* the value of the longest prefix of digits of cs, after the digits in acc
RECURSIVE DigitPrefix(_, _)
DigitPrefix(cs, acc) ==
    IF cs # <<>> /\ IsDigit(Head(cs))
    THEN DigitPrefix(Tail(cs), [nan |-> FALSE, n |-> 10 * acc.n + DigitVal(Head(cs))])
    ELSE acc

NaN == [nan |-> TRUE, n |-> 0]

ParseInt(s) ==
    LET trimmed == SkipWhiteSpace(Chars(s))
        signed == trimmed # <<>> /\ Head(trimmed) \in {"-", "+"}
        sign == IF trimmed # <<>> /\ Head(trimmed) = "-" THEN -1 ELSE 1
        body == IF signed THEN Tail(trimmed) ELSE trimmed
        z == DigitPrefix(body, NaN)
    IN  IF z.nan THEN NaN ELSE [nan |-> FALSE, n |-> sign * z.n]

(***************************************************************************)
(* ConfigManager                                                           *)
(***************************************************************************)
\* the object the constructor builds
PristineConfig ==
    [profiles |-> <<[name |-> "default"]>>,
     currentProfile |-> "default",
     defaultTimeout |-> 30000,
     userAgent |-> "fx-cli/1.0.0"]

Absent == [kind |-> "absent"]
Corrupt == [kind |-> "corrupt"]
Json(doc) == [kind |-> "json", doc |-> doc]

\* { ...a, ...b }
Spread(a, b) == [k \in DOMAIN a \cup DOMAIN b |-> IF k \in DOMAIN b THEN b[k] ELSE a[k]]

\* JSON.stringify followed by JSON.parse of a config: what a later read of the
\* written text yields.  Every value a profile holds is a string or a number, and
\* both survive; the document keeps the keys of the object.
Stringify(config) == [k \in DOMAIN config |-> config[k]]

\* a store state: the file and the in-memory defaultConfig
Store(f, dc) == [file |-> f, dc |-> dc]

\* a variant that lets the defaults win over the document, which C20 must
\* tell from the code's
LoadDefaultsWin(s) ==
    IF s.file.kind = "json" THEN Spread(s.file.doc, s.dc) ELSE s.dc

\* load(): the file's document over the defaults, or the defaultConfig object
\* itself when the file is missing or does not parse
Load(s) ==
    IF s.file.kind = "json" THEN Spread(s.dc, s.file.doc) ELSE s.dc

\* What the defaultConfig object is after a handler mutated the object load()
\* returned into config: load() hands out defaultConfig itself when there is no
\* readable file, and defaultConfig's profiles array when the document has none.
AfterMutation(s, config) ==
    IF s.file.kind # "json" THEN config
    ELSE IF "profiles" \notin DOMAIN s.file.doc
         THEN [s.dc EXCEPT !.profiles = config.profiles]
         ELSE s.dc

\* p.name === name
HasName(p, name) == "name" \in DOMAIN p /\ p.name = name

\* profiles.findIndex(p => p.name === name), 1-based; 0 when there is none
FindIndex(profiles, name) ==
    IF \E i \in 1..Len(profiles) : HasName(profiles[i], name)
    THEN CHOOSE i \in 1..Len(profiles) :
            /\ HasName(profiles[i], name)
            /\ \A j \in 1..(i - 1) : ~HasName(profiles[j], name)
    ELSE 0

\* the outcome of a ConfigManager call: the store after it, and the Error thrown
\* every throw of ConfigManager is a throw new Error(...): class is the
\* constructor of what was thrown
Returned(s) == [st |-> s, threw |-> FALSE, msg |-> "", class |-> ""]
Threw(s, msg) == [st |-> s, threw |-> TRUE, msg |-> msg, class |-> "Error"]

\* save(config) after the handler mutated config; writeOk is whether
\* mkdirSync / writeFileSync succeed
Save(s, config, writeOk) ==
    IF writeOk
    THEN Returned(Store(Json(Stringify(config)), AfterMutation(s, config)))
    ELSE Threw(Store(s.file, AfterMutation(s, config)), "Failed to save config: EACCES")

\* getCurrentProfile(): 0 stands for undefined, else the index of the profile
CurrentIndex(s) == FindIndex(Load(s).profiles, Load(s).currentProfile)

\* a variant without the lookup, which C17 must tell from the code's
SetCurrentProfileNoLookup(s, profileName, writeOk) ==
    Save(s, [Load(s) EXCEPT !.currentProfile = profileName], writeOk)

SetCurrentProfileOp(s, profileName, writeOk) ==
    LET config == Load(s)
    IN  IF FindIndex(config.profiles, profileName) = 0
        THEN Threw(s, "Profile '" \o profileName \o "' not found")
        ELSE Save(s, [config EXCEPT !.currentProfile = profileName], writeOk)

\* a variant that keeps nothing of the profile but its name, which C30 must
\* tell from the code's
AssignAfresh(profile, key, value) == (key :> value) @@ [name |-> profile.name]

\* profile[key] = value
Assign(profile, key, value) == (key :> value) @@ profile

SetProfileValueOp(s, profileName, key, value, writeOk) ==
    LET config == Load(s)
        idx == FindIndex(config.profiles, profileName)
        numValue == ParseInt(value)
    IN  IF idx = 0
        THEN Threw(s, "Profile '" \o profileName \o "' not found")
        ELSE IF key = "timeout"
        THEN IF numValue.nan \/ numValue.n < 0
             THEN Threw(s, "Timeout must be a positive number")
             ELSE Save(s, [config EXCEPT !.profiles[idx] = Assign(@, key, numValue.n)],
                       writeOk)
        ELSE Save(s, [config EXCEPT !.profiles[idx] = Assign(@, key, value)], writeOk)

\* getProfileValue(profileName, key): a read; the store is as it was
GetProfileValueOp(s, profileName, key) ==
    IF FindIndex(Load(s).profiles, profileName) = 0
    THEN Threw(s, "Profile '" \o profileName \o "' not found")
    ELSE Returned(s)

(***************************************************************************)
(* The operations of the store, as functions of the store they run on.     *)
(***************************************************************************)
\* the (key, value) pairs setProfileValue is called with
KeyValues ==
    ({"name"} \X ProfileNames) \cup (StringKeys \X StringValues)
        \cup ({"timeout"} \X TimeoutInputs)

\* config --add <name>
ConfigAddOp(s, name, writeOk) ==
    LET config == Load(s)
    IN  IF FindIndex(config.profiles, name) # 0
        THEN Threw(s, "Profile '" \o name \o "' already exists")
        ELSE Save(s, [config EXCEPT !.profiles = Append(@, [name |-> name])], writeOk)

\* profiles.splice(i, 1)
Splice(profiles, i) ==
    [j \in 1..(Len(profiles) - 1) |-> IF j < i THEN profiles[j] ELSE profiles[j + 1]]

\* config --remove <name>
ConfigRemoveOp(s, name, writeOk) ==
    LET config == Load(s)
        profileIndex == FindIndex(config.profiles, name)
        spliced == [config EXCEPT !.profiles = Splice(@, profileIndex)]
    IN  IF name = "default"
        THEN Threw(s, "Cannot remove the default profile")
        ELSE IF profileIndex = 0
        THEN Threw(s, "Profile '" \o name \o "' not found")
        ELSE Save(s,
                  IF config.currentProfile = name
                  THEN [spliced EXCEPT !.currentProfile = "default"]
                  ELSE spliced,
                  writeOk)

\* auth --logout: two field writes on the current profile; a write that throws
\* ends the command
LogoutOp(s, writeOk1, writeOk2) ==
    LET idx == CurrentIndex(s)
        name == Load(s).profiles[idx].name
        first == SetProfileValueOp(s, name, "corpAccessToken", "", writeOk1)
    IN  IF idx = 0 THEN Returned(s)
        ELSE IF first.threw THEN first
        ELSE SetProfileValueOp(first.st, name, "corpId", "", writeOk2)

\* one operation, by name, on store s
StoreOps == {"setCurrentProfile", "setProfileValue", "add", "remove", "logout"}
Apply(op, s, name, kv, writeOk1, writeOk2) ==
    CASE op = "setCurrentProfile" -> SetCurrentProfileOp(s, name, writeOk1)
      [] op = "setProfileValue"   -> SetProfileValueOp(s, name, kv[1], kv[2], writeOk1)
      [] op = "add"               -> ConfigAddOp(s, name, writeOk1)
      [] op = "remove"            -> ConfigRemoveOp(s, name, writeOk1)
      [] op = "logout"            -> LogoutOp(s, writeOk1, writeOk2)

\* what a command did: its argument, the Error it ended with, and whether the
\* file holds what it held before the command
Outcome(op, name, s, r) ==
    [op |-> op, name |-> name, threw |-> r.threw, msg |-> r.msg,
     class |-> r.class, same |-> (r.st.file = s.file)]

(***************************************************************************)
(* The commands of the CLI.  Each runs in a process of its own, which      *)
(* constructs its ConfigManager and ends with the command.                 *)
(***************************************************************************)
Fresh == Store(file, PristineConfig)

Exit(op, name, r) ==
    /\ file' = r.st.file
    /\ last' = Outcome(op, name, Fresh, r)
    /\ UNCHANGED <<defaultConfig, calls, raw, result, pc, requests>>

SetCurrentProfile ==
    \E name \in ProfileNames, writeOk \in BOOLEAN :
        Exit("setCurrentProfile", name, SetCurrentProfileOp(Fresh, name, writeOk))

\* the command's record also keeps the key and the value it was given
SetProfileValue ==
    \E name \in ProfileNames, kv \in KeyValues, writeOk \in BOOLEAN :
        LET r == SetProfileValueOp(Fresh, name, kv[1], kv[2], writeOk)
        IN  /\ file' = r.st.file
            /\ last' = [key |-> kv[1], value |-> kv[2]]
                            @@ Outcome("setProfileValue", name, Fresh, r)
            /\ UNCHANGED <<defaultConfig, calls, raw, result, pc, requests>>

ConfigAdd ==
    \E name \in ProfileNames, writeOk \in BOOLEAN :
        /\ Len(Load(Fresh).profiles) < MaxProfiles
        /\ Exit("add", name, ConfigAddOp(Fresh, name, writeOk))

ConfigRemove ==
    \E name \in ProfileNames, writeOk \in BOOLEAN :
        Exit("remove", name, ConfigRemoveOp(Fresh, name, writeOk))

Logout ==
    \E writeOk1, writeOk2 \in BOOLEAN :
        Exit("logout", "", LogoutOp(Fresh, writeOk1, writeOk2))

Idle == [at |-> "idle"]

NoCommand ==
    [op |-> "none", name |-> "", threw |-> FALSE, msg |-> "", class |-> "", same |-> TRUE]

Init ==
    /\ file = Absent
    /\ defaultConfig = PristineConfig
    /\ last = NoCommand
    /\ calls = 0
    /\ raw = JUndefined
    /\ result = JUndefined
    /\ pc = Idle
    /\ requests = <<>>

Next ==
    \/ SetCurrentProfile
    \/ SetProfileValue
    \/ ConfigAdd
    \/ ConfigRemove
    \/ Logout

Spec == Init /\ [][Next]_vars

(***************************************************************************)
(* One long-lived ConfigManager: every call is made on the same instance,  *)
(* whose defaultConfig object lives as long as the instance.               *)
(***************************************************************************)
Here == Store(file, defaultConfig)

Call(op, name, kv, writeOk1, writeOk2) ==
    LET r == Apply(op, Here, name, kv, writeOk1, writeOk2)
    IN  /\ calls < MaxCalls
        /\ op = "add" => Len(Load(Here).profiles) < MaxProfiles
        /\ file' = r.st.file
        /\ defaultConfig' = r.st.dc
        /\ last' = Outcome(op, name, Here, r)
        /\ calls' = calls + 1
        /\ UNCHANGED <<raw, result, pc, requests>>

CallWrite ==
    \E op \in StoreOps \ {"setProfileValue", "logout"}, name \in ProfileNames,
       writeOk \in BOOLEAN :
        Call(op, name, <<"corpId", "">>, writeOk, TRUE)

CallSetProfileValue ==
    \E name \in ProfileNames, kv \in KeyValues, writeOk \in BOOLEAN :
        Call("setProfileValue", name, kv, writeOk, TRUE)

CallLogout ==
    \E writeOk1, writeOk2 \in BOOLEAN :
        Call("logout", "default", <<"corpId", "">>, writeOk1, writeOk2)

CallGetProfileValue ==
    \E name \in ProfileNames, key \in StringKeys :
        LET r == GetProfileValueOp(Here, name, key)
        IN  /\ calls < MaxCalls
            /\ last' = Outcome("getProfileValue", name, Here, r)
            /\ calls' = calls + 1
            /\ UNCHANGED <<file, defaultConfig, raw, result, pc, requests>>

InstanceNext == CallWrite \/ CallSetProfileValue \/ CallLogout \/ CallGetProfileValue

InstanceSpec == Init /\ [][InstanceNext]_vars

(***************************************************************************)
(* ResponseFactory                                                         *)
(***************************************************************************)
\* success(data, status = 200)
FactorySuccess(data, status, now) ==
    [success |-> JBool(TRUE),
     data |-> data,
     status |-> IF status = JUndefined THEN JNum(200) ELSE status,
     timestamp |-> JNum(now)]

\* error(error, errorCode?, errorMessage?, status?)
FactoryError(error, errorCode, errorMessage, status, now) ==
    [success |-> JBool(FALSE),
     error |-> error,
     errorCode |-> errorCode,
     errorMessage |-> errorMessage,
     status |-> status,
     timestamp |-> JNum(now)]

\* fromException(exception, status?), on exception.message
FromException(message, status, now) ==
    [success |-> JBool(FALSE), error |-> message, status |-> status,
     timestamp |-> JNum(now)]

DefaultMessages ==
    (400 :> "Bad Request") @@ (401 :> "Unauthorized") @@ (403 :> "Forbidden")
        @@ (404 :> "Not Found") @@ (429 :> "Too Many Requests")
        @@ (500 :> "Internal Server Error") @@ (502 :> "Bad Gateway")
        @@ (503 :> "Service Unavailable") @@ (504 :> "Gateway Timeout")

\* a variant without the default messages, which C8 must tell from the code's
FromHttpStatusNoDefault(status, message, now) ==
    [success |-> JBool(FALSE), error |-> message, status |-> JNum(status),
     timestamp |-> JNum(now)]

\* fromHttpStatus(status, message?)
FromHttpStatus(status, message, now) ==
    [success |-> JBool(FALSE),
     error |-> IF Truthy(message) THEN message
               ELSE IF status \in DOMAIN DefaultMessages
               THEN JStr(DefaultMessages[status])
               ELSE JStr("HTTP Error " \o ToString(status)),
     status |-> JNum(status),
     timestamp |-> JNum(now)]

(***************************************************************************)
(* FxiaokeApiError                                                         *)
(***************************************************************************)
\* new FxiaokeApiError(errorCode, errorMessage, errorDescription, traceId)
FxiaokeApiError(errorCode, errorMessage, errorDescription, traceId) ==
    [message |-> "Fxiaoke API Error (" \o Template(errorCode) \o "): "
                    \o Template(errorMessage),
     errorCode |-> IF errorCode = JUndefined THEN JStr("UNKNOWN_ERROR") ELSE errorCode,
     statusCode |-> 400,
     isOperational |-> TRUE,
     errorDescription |-> errorDescription,
     traceId |-> traceId]

\* a variant without the gateway timeout, which C7 must tell from the code's
RetryableCodesNo504 == {10001, 10002, 10003, 500, 502, 503}

RetryableCodes == {10001, 10002, 10003, 500, 502, 503, 504}

\* Number(v), for the values an errorCode takes: a number is itself, and the
\* constructor's default 'UNKNOWN_ERROR' and undefined are NaN
JNaN == [t |-> "number", nan |-> TRUE]
ToNumber(v) == IF v.t = "number" THEN v ELSE JNaN

\* isRetryable(): retryableCodes.includes(Number(this.errorCode))
IsRetryable(error) == \E c \in RetryableCodes : JNum(c) = ToNumber(error.errorCode)

(***************************************************************************)
(* FxiaokeResponseParser                                                   *)
(***************************************************************************)
\* a variant that looks at errorCode only, which C6 must tell from the code's
IsFxiaokeApiResponseCodeOnly(response) ==
    /\ Truthy(response)
    /\ TypeOf(response) = "object"
    /\ TypeOf(Get(response, "errorCode")) = "number"

IsFxiaokeApiResponse(response) ==
    /\ Truthy(response)
    /\ TypeOf(response) = "object"
    /\ TypeOf(Get(response, "errorCode")) = "number"
    /\ TypeOf(Get(response, "errorMessage")) = "string"

ApiErrorResult(response, now) ==
    [success |-> JBool(FALSE),
     error |-> JStr("Fxiaoke API Error (" \o Template(Get(response, "errorCode"))
                        \o "): " \o Template(Get(response, "errorMessage"))),
     errorCode |-> Get(response, "errorCode"),
     errorMessage |-> Get(response, "errorMessage"),
     timestamp |-> JNum(now)]

\* a variant that does not unwrap the data field, which C5 must tell from the
\* code's
ParseFxiaokeResponseWholeBody(response, now) ==
    IF Get(response, "errorCode") # JNum(0)
    THEN ApiErrorResult(response, now)
    ELSE [success |-> JBool(TRUE),
          data |-> response,
          status |-> JNum(200),
          timestamp |-> JNum(now)]

ParseFxiaokeResponse(response, now) ==
    IF Get(response, "errorCode") # JNum(0)
    THEN ApiErrorResult(response, now)
    ELSE [success |-> JBool(TRUE),
          data |-> Get(response, "data"),
          status |-> JNum(200),
          timestamp |-> JNum(now)]

\* parse(rawResponse).  Nothing in the try block throws on a JSON value, so the
\* catch branch is not taken.
Parse(rawResponse, now) ==
    IF IsFxiaokeApiResponse(rawResponse)
    THEN ParseFxiaokeResponse(rawResponse, now)
    ELSE [success |-> JBool(TRUE),
          data |-> rawResponse,
          status |-> JNum(200),
          timestamp |-> JNum(now)]

\* a variant that requires the token only, which C9 must tell from the code's
ParseAuthResponseTokenOnly(rawResponse, now) ==
    LET authData == [corpAccessToken |-> Get(rawResponse, "corpAccessToken"),
                     corpId |-> Get(rawResponse, "corpId"),
                     expiresIn |-> Get(rawResponse, "expiresIn")]
    IN  IF ~IsFxiaokeApiResponse(rawResponse)
        THEN [success |-> JBool(FALSE),
              error |-> JStr("Response is not in Fxiaoke API format"),
              timestamp |-> JNum(now)]
        ELSE IF Get(rawResponse, "errorCode") # JNum(0)
        THEN ApiErrorResult(rawResponse, now)
        ELSE IF ~Truthy(authData.corpAccessToken)
        THEN [success |-> JBool(FALSE),
              error |-> JStr("Authentication response missing required fields (corpAccessToken, corpId)"),
              timestamp |-> JNum(now)]
        ELSE [success |-> JBool(TRUE),
              data |-> JObj(authData),
              status |-> JNum(200),
              timestamp |-> JNum(now)]

ParseAuthResponse(rawResponse, now) ==
    LET authData == [corpAccessToken |-> Get(rawResponse, "corpAccessToken"),
                     corpId |-> Get(rawResponse, "corpId"),
                     expiresIn |-> Get(rawResponse, "expiresIn")]
    IN  IF ~IsFxiaokeApiResponse(rawResponse)
        THEN [success |-> JBool(FALSE),
              error |-> JStr("Response is not in Fxiaoke API format"),
              timestamp |-> JNum(now)]
        ELSE IF Get(rawResponse, "errorCode") # JNum(0)
        THEN ApiErrorResult(rawResponse, now)
        ELSE IF ~Truthy(authData.corpAccessToken) \/ ~Truthy(authData.corpId)
        THEN [success |-> JBool(FALSE),
              error |-> JStr("Authentication response missing required fields (corpAccessToken, corpId)"),
              timestamp |-> JNum(now)]
        ELSE [success |-> JBool(TRUE),
              data |-> JObj(authData),
              status |-> JNum(200),
              timestamp |-> JNum(now)]

CreateErrorFromResponse(response) ==
    FxiaokeApiError(Get(response, "errorCode"), Get(response, "errorMessage"),
                    Get(response, "errorDescription"), Get(response, "traceId"))

IsRetryableError(response) ==
    IF Get(response, "errorCode") = JNum(0)
    THEN FALSE
    ELSE IsRetryable(CreateErrorFromResponse(response))

(***************************************************************************)
(* HttpClient: what get / post / put / delete return for each way the      *)
(* axios call ends.                                                        *)
(***************************************************************************)
\* handleError(error)
HandleError(error, now) ==
    IF error.isAxiosError
    THEN IF error.response # JUndefined
         THEN FromHttpStatus(Get(error.response, "status").n,
                             Get(error.response, "statusText"), now)
         ELSE IF Truthy(error.request)
         THEN FactoryError(JStr("Network error: No response received"),
                           JStr("NETWORK_ERROR"), JUndefined, JUndefined, now)
         ELSE FactoryError(JStr("Request error: " \o Template(error.message)),
                           JStr("REQUEST_ERROR"), JUndefined, JUndefined, now)
    ELSE FromException(error.message, JUndefined, now)

\* the body of get / post / put / delete: the axios call resolves with a
\* response or rejects with an error
Request(outcome, now) ==
    IF outcome.resolved
    THEN FactorySuccess(outcome.data, JNum(outcome.status), now)
    ELSE HandleError(outcome.error, now)

(***************************************************************************)
(* The parser, the factory and the HTTP client applied to response bodies. *)
(***************************************************************************)
Clock == {1700000000, 1700000001}   \* the values Date.now() returns

ErrorCodes ==
    {0, 1, -500, 400, 429, 499, 500, 501, 502, 503, 504, 505,
     10000, 10001, 10002, 10003, 10004, 10006, 10007}

\* the values each field of a response body takes; JUndefined: the body has no
\* such key
BodyFields ==
    [errorCode : {JUndefined, JStr("0"), JNum(0), JNum(500), JNum(10006)},
     errorMessage : {JUndefined, JNum(1), JStr("success"), JStr("Invalid parameters")},
     data : {JUndefined, JNull, JStr("text"), JObj([result |-> JStr("test")])},
     corpAccessToken : {JUndefined, JNull, JStr(""), JStr("token-123")},
     corpId : {JUndefined, JStr(""), JStr("corp-456")},
     expiresIn : {JUndefined, JNum(7200)}]

BodyOf(fields) ==
    JObj([k \in {key \in DOMAIN fields : fields[key] # JUndefined} |-> fields[k]])

RawInputs ==
    {JUndefined, JNull, JBool(FALSE), JNum(0), JNum(500), JStr(""), JStr("<html>")}
        \cup {BodyOf(fields) : fields \in BodyFields}
        \cup {JObj([errorCode |-> JNum(c), errorMessage |-> JStr("message")]) :
                c \in ErrorCodes}

\* the ways an axios call ends: it resolves with a response, or rejects with an
\* AxiosError (with a response, with a request only, with neither) or with
\* something that is no AxiosError
AxiosErrors ==
    [isAxiosError : {TRUE},
     response : {JObj([status |-> JNum(st), statusText |-> txt,
                       data |-> JObj([errorCode |-> JNum(10006)])]) :
                    st \in {401, 404, 500, 999},
                    txt \in {JUndefined, JStr(""), JStr("Not Found")}},
     request : {JObj(<<>>)},
     message : {JStr("Request failed")}]
    \cup [isAxiosError : {TRUE}, response : {JUndefined}, request : {JObj(<<>>)},
          message : {JStr("Network timeout")}]
    \cup [isAxiosError : {TRUE}, response : {JUndefined}, request : {JUndefined},
          message : {JStr("Invalid URL"), JUndefined}]
    \cup [isAxiosError : {FALSE}, response : {JUndefined}, request : {JUndefined},
          message : {JStr("Unexpected error")}]

Resolved(status, data) == [resolved |-> TRUE, status |-> status, data |-> data]
Rejected(error) == [resolved |-> FALSE, error |-> error]

Returns(op, value) ==
    /\ result' = value
    /\ last' = [NoCommand EXCEPT !.op = op]
    /\ UNCHANGED <<file, defaultConfig, calls, raw, pc, requests>>

CallParse == \E now \in Clock : Returns("parse", Parse(raw, now))

CallParseAuthResponse ==
    \E now \in Clock : Returns("parseAuthResponse", ParseAuthResponse(raw, now))

\* isRetryableError(response: FxiaokeApiResponse)
CallIsRetryableError ==
    /\ raw.t = "object"
    /\ TypeOf(Get(raw, "errorCode")) = "number"
    /\ Returns("isRetryableError", JBool(IsRetryableError(raw)))

FactoryMessages == {JStr(""), JStr("Something went wrong")}

CallFactorySuccess ==
    \E now \in Clock, status \in {JUndefined, JNum(201)} :
        Returns("success", FactorySuccess(raw, status, now))

\* the calls below take no response body: they are made once, not once per body
CallFactoryError ==
    /\ raw = JUndefined
    /\ \E now \in Clock, error \in FactoryMessages,
       errorCode \in {JUndefined, JStr("NOT_FOUND")}, status \in {JUndefined, JNum(404)} :
        Returns("error", FactoryError(error, errorCode, JUndefined, status, now))

CallFromException ==
    /\ raw = JUndefined
    /\ \E now \in Clock, message \in FactoryMessages, status \in {JUndefined, JNum(500)} :
        Returns("fromException", FromException(message, status, now))

CallFromHttpStatus ==
    /\ raw = JUndefined
    /\ \E now \in Clock, status \in {404, 500, 999},
       message \in {JUndefined} \cup FactoryMessages :
        Returns("fromHttpStatus", FromHttpStatus(status, message, now))

\* httpClient.get / post / put / delete answering with body raw, or failing
\* the record of the call also keeps how the axios call ended
HttpReturns(outcome, now) ==
    /\ result' = Request(outcome, now)
    /\ last' = [outcome |-> outcome] @@ [NoCommand EXCEPT !.op = "http"]
    /\ UNCHANGED <<file, defaultConfig, calls, raw, pc, requests>>

CallHttp ==
    \E now \in Clock, status \in {200, 201} : HttpReturns(Resolved(status, raw), now)

CallHttpFailing ==
    /\ raw = JUndefined
    /\ \E now \in Clock, error \in AxiosErrors : HttpReturns(Rejected(error), now)

ParserInit ==
    /\ file = Absent
    /\ defaultConfig = PristineConfig
    /\ last = NoCommand
    /\ calls = 0
    /\ raw \in RawInputs
    /\ result = JUndefined
    /\ pc = Idle
    /\ requests = <<>>

ParserNext ==
    \/ CallParse
    \/ CallParseAuthResponse
    \/ CallIsRetryableError
    \/ CallFactorySuccess
    \/ CallFactoryError
    \/ CallFromException
    \/ CallFromHttpStatus
    \/ CallHttp
    \/ CallHttpFailing

ParserSpec == ParserInit /\ [][ParserNext]_vars

(***************************************************************************)
(* A computation inside a try block either completes with a value or       *)
(* throws an Error with a message.                                         *)
(***************************************************************************)
Completes(value) == [threw |-> FALSE, value |-> value]
Throws(message) == [threw |-> TRUE, message |-> message]

Nullish(v) == v.t \in {"null", "undefined"}

\* the TypeError of reading a property of null or undefined
TypeErrorReading(v, key) ==
    "Cannot read properties of " \o Template(v) \o " (reading '" \o key \o "')"

\* getCurrentProfile() inside a try block: profiles.find throws a TypeError on
\* a document whose profiles field is null
Misshapen == [kind |-> "misshapen"]   \* the file holds {"profiles": null}
NullProfiles(s) == s.file = Misshapen

CurrentProfileOutcome(s) ==
    IF NullProfiles(s) THEN Throws(TypeErrorReading(JNull, "find"))
    ELSE Completes(CurrentIndex(s))

(***************************************************************************)
(* AuthService.authenticate.  The call runs up to its await of the POST,   *)
(* and resumes when the HTTP client answers.                               *)
(***************************************************************************)
\* a variant that takes an empty string for a value, which C10 must tell from
\* the code's
FalsyAbsentOnly(profile, key) == key \notin DOMAIN profile

\* !profile[key], for the string fields of a profile
Falsy(profile, key) == key \notin DOMAIN profile \/ profile[key] = ""

AuthEndpoint == "/cgi/corpAccessToken/get/V2"

AuthFailure(error) == [success |-> FALSE, error |-> error]

\* x || fallback, as a string
OrElse(x, fallback) == IF Truthy(x) THEN Template(x) ELSE fallback

\* a variant that writes the token and not the corpId, which C11 must tell from
\* the code's
HandleApiResponseTokenOnly(s, apiData, currentProfile, now, writeOk1, writeOk2) ==
    LET parsedResponse == ParseAuthResponse(apiData, now)
        authData == parsedResponse.data.o
        first == SetProfileValueOp(s, currentProfile.name, "corpAccessToken",
                                   authData.corpAccessToken.s, writeOk1)
    IN  IF ~parsedResponse.success.b
        THEN [st |-> s, threw |-> FALSE,
              value |-> AuthFailure(OrElse(parsedResponse.error, "Authentication failed"))]
        ELSE IF first.threw THEN [st |-> first.st, threw |-> TRUE, value |-> first.msg]
        ELSE [st |-> first.st, threw |-> FALSE,
              value |-> [success |-> TRUE,
                         accessToken |-> authData.corpAccessToken.s,
                         corpId |-> authData.corpId.s]]

\* handleApiResponse(apiData, currentProfile) on store s: the store after it, and
\* the AuthResponse returned or the Error thrown
HandleApiResponse(s, apiData, currentProfile, now, writeOk1, writeOk2) ==
    LET parsedResponse == ParseAuthResponse(apiData, now)
        authData == parsedResponse.data.o
        first == SetProfileValueOp(s, currentProfile.name, "corpAccessToken",
                                   authData.corpAccessToken.s, writeOk1)
        second == SetProfileValueOp(first.st, currentProfile.name, "corpId",
                                    authData.corpId.s, writeOk2)
    IN  IF ~parsedResponse.success.b
        THEN [st |-> s, threw |-> FALSE,
              value |-> AuthFailure(OrElse(parsedResponse.error, "Authentication failed"))]
        ELSE IF Truthy(authData.corpAccessToken) /\ Truthy(authData.corpId)
        THEN IF first.threw THEN [st |-> first.st, threw |-> TRUE, value |-> first.msg]
             ELSE IF second.threw
             THEN [st |-> second.st, threw |-> TRUE, value |-> second.msg]
             ELSE [st |-> second.st, threw |-> FALSE,
                   value |-> [success |-> TRUE,
                              accessToken |-> authData.corpAccessToken.s,
                              corpId |-> authData.corpId.s]]
        ELSE [st |-> s, threw |-> FALSE,
              value |-> AuthFailure("API response missing required fields (corpAccessToken, corpId)")]

AuthReturn(value, fileAfter) ==
    /\ result' = value
    /\ file' = fileAfter
    /\ pc' = Idle
    /\ last' = [NoCommand EXCEPT !.op = "authenticate", !.same = (fileAfter = file)]
    /\ UNCHANGED <<defaultConfig, calls>>

\* authenticate(), up to the await; raw is the body the endpoint answered the
\* call with and result what the call returned, none yet; an Error thrown by
\* getCurrentProfile is caught and returned as a failure
AuthStart ==
    /\ pc.at = "idle"
    /\ raw' = JUndefined
    /\ LET found == CurrentProfileOutcome(Fresh)
           idx == found.value
           currentProfile == Load(Fresh).profiles[idx]
       IN  IF found.threw
           THEN /\ AuthReturn(AuthFailure(found.message), file)
                /\ requests' = <<>>
           ELSE IF idx = 0
           THEN /\ AuthReturn(AuthFailure("No current profile set"), file)
                /\ requests' = <<>>
           ELSE IF Falsy(currentProfile, "appId") \/ Falsy(currentProfile, "appSecret")
                   \/ Falsy(currentProfile, "permanentCode")
           THEN /\ AuthReturn(AuthFailure("Missing authentication parameters. Please set appId, appSecret, and permanentCode."), file)
                /\ requests' = <<>>
           ELSE /\ requests' = <<[method |-> "POST",
                                  url |-> AuthEndpoint,
                                  data |-> [appId |-> currentProfile.appId,
                                            appSecret |-> currentProfile.appSecret,
                                            permanentCode |-> currentProfile.permanentCode]]>>
                /\ pc' = [at |-> "authenticate", currentProfile |-> currentProfile]
                /\ last' = [NoCommand EXCEPT !.op = "authenticate"]
                /\ result' = JUndefined
                /\ UNCHANGED <<file, defaultConfig, calls>>

\* authenticate(), from the answer of httpClient.post on; an Error thrown by a
\* field write is caught and returned as a failure
AuthResume(outcome, now, writeOk1, writeOk2) ==
    LET response == Request(outcome, now)
        handled == HandleApiResponse(Fresh, response.data, pc.currentProfile, now,
                                     writeOk1, writeOk2)
    IN  /\ pc.at = "authenticate"
        /\ UNCHANGED requests
        /\ raw' = IF outcome.resolved THEN outcome.data ELSE JUndefined
        /\ IF ~response.success.b
           THEN AuthReturn(AuthFailure(OrElse(response.error, "Authentication failed")), file)
           ELSE IF handled.threw
           THEN AuthReturn(AuthFailure(handled.value), handled.st.file)
           ELSE AuthReturn(handled.value, handled.st.file)

\* getToken() / getCorpId(): the field of the current profile, or null
\* a variant with an expiry check, which C23 must tell from the code's
GetFieldUnlessExpired(s, key) ==
    LET idx == CurrentIndex(s)
        currentProfile == Load(s).profiles[idx]
    IN  IF idx = 0 \/ Falsy(currentProfile, key) THEN JNull
        ELSE IF "tokenExpiry" \in DOMAIN currentProfile /\ currentProfile.tokenExpiry < 1700000000
        THEN JNull
        ELSE JStr(currentProfile[key])

GetField(s, key) ==
    LET idx == CurrentIndex(s)
        currentProfile == Load(s).profiles[idx]
    IN  IF idx = 0 \/ Falsy(currentProfile, key) THEN JNull
        ELSE JStr(currentProfile[key])

\* the promise of an async method whose body threw
Rejects(message) == [t |-> "rejected", message |-> message]

\* a call of either: it posts nothing and is answered nothing
Getter(op, key) ==
    /\ pc.at = "idle"
    /\ result' = IF CurrentProfileOutcome(Fresh).threw
                  THEN Rejects(CurrentProfileOutcome(Fresh).message)
                  ELSE GetField(Fresh, key)
    /\ last' = [NoCommand EXCEPT !.op = op]
    /\ requests' = <<>>
    /\ raw' = JUndefined
    /\ UNCHANGED <<file, defaultConfig, calls, pc>>

GetToken == Getter("getToken", "corpAccessToken")

GetCorpId == Getter("getCorpId", "corpId")

\* the bodies the authentication endpoint answers with
AuthBodies ==
    {JNull, JStr("<html>")}
        \cup {BodyOf(fields) :
                fields \in [errorCode : {JUndefined, JNum(0), JNum(500), JNum(10007)},
                            errorMessage : {JUndefined, JStr("success")},
                            corpAccessToken : {JUndefined, JStr(""), JStr("token-123")},
                            corpId : {JUndefined, JStr(""), JStr("corp-456")},
                            expiresIn : {JNum(7200)}]}

AuthAnswered ==
    \E body \in AuthBodies, now \in Clock, writeOk1, writeOk2 \in BOOLEAN :
        AuthResume(Resolved(200, body), now, writeOk1, writeOk2)

AuthRejected ==
    \E error \in AxiosErrors, now \in Clock :
        AuthResume(Rejected(error), now, TRUE, TRUE)

\* the stores authenticate is run on: no file, or a document whose first profile
\* has any of the three credentials unset, empty or set
Credentials ==
    [appId : {JUndefined, JStr(""), JStr("FSAID_1")},
     appSecret : {JUndefined, JStr(""), JStr("secret")},
     permanentCode : {JUndefined, JStr(""), JStr("B28E")}]

ProfileWith(name, fields) ==
    [k \in {"name"} \cup {key \in DOMAIN fields : fields[key] # JUndefined} |->
        IF k = "name" THEN name ELSE fields[k].s]

OtherProfile == [name |-> "other", corpAccessToken |-> "old-token", corpId |-> "old-corp"]

AuthStores ==
    {Absent} \cup
    {Json([PristineConfig EXCEPT !.profiles = <<ProfileWith(name, fields)>> \o others]) :
        name \in ProfileNames, fields \in Credentials, others \in {<<>>, <<OtherProfile>>}}

AuthInit ==
    /\ file \in AuthStores
    /\ defaultConfig = PristineConfig
    /\ last = NoCommand
    /\ calls = 0
    /\ raw = JUndefined
    /\ result = JUndefined
    /\ pc = Idle
    /\ requests = <<>>

AuthNext == AuthStart \/ AuthAnswered \/ AuthRejected \/ GetToken \/ GetCorpId

AuthSpec == AuthInit /\ [][AuthNext]_vars

(***************************************************************************)
(* ObjectService                                                           *)
(***************************************************************************)
\* ResponseFactory.error(text)
ErrorResult(text, now) == FactoryError(JStr(text), JUndefined, JUndefined, JUndefined, now)

\* a variant in which the Error leaves the method, which C14 must tell from the
\* code's
Uncaught(prefix, outcome, now) ==
    IF outcome.threw
    THEN [success |-> JBool(FALSE), error |-> JUndefined, raised |-> outcome.message]
    ELSE outcome.value

\* try { ... } catch (error) { return ResponseFactory.error(`<prefix>${error.message}`) }
Caught(prefix, outcome, now) ==
    IF outcome.threw THEN ErrorResult(prefix \o outcome.message, now) ELSE outcome.value

\* a || b
Or(a, b) == IF Truthy(a) THEN a ELSE b

\* rawData.errorMessage || rawData.errorDescription || 'Unknown error'
ErrorMsg(rawData) ==
    Or(Or(Get(rawData, "errorMessage"), Get(rawData, "errorDescription")),
       JStr("Unknown error"))

\* the try block of getCurrentOpenUserId, from the answer of httpClient.post on
UserIdBody(response, now) ==
    LET rawData == response.data
        empList == Get(rawData, "empList")
        hasEmp == Truthy(empList) /\ empList.t = "array" /\ Len(empList.a) > 0
        firstEmployee == empList.a[1]
        fromEmp == IF hasEmp THEN Get(firstEmployee, "openUserId") ELSE JUndefined
        fallbackId == Or(Or(Get(rawData, "currentOpenUserId"), Get(rawData, "userId")),
                         Get(rawData, "id"))
        currentOpenUserId ==
            IF ~Truthy(fromEmp) /\ TypeOf(fallbackId) = "string" THEN fallbackId
            ELSE fromEmp
    IN  IF ~response.success.b
        THEN Completes(ErrorResult("Failed to get user ID: " \o Template(response.error), now))
        ELSE IF Nullish(rawData)
        THEN Throws(TypeErrorReading(rawData, "errorCode"))
        ELSE IF Get(rawData, "errorCode") # JNum(0)
        THEN Completes(ErrorResult("API Error: " \o Template(ErrorMsg(rawData)), now))
        ELSE IF hasEmp /\ Nullish(firstEmployee)
        THEN Throws(TypeErrorReading(firstEmployee, "openUserId"))
        ELSE IF ~Truthy(currentOpenUserId) \/ TypeOf(currentOpenUserId) # "string"
        THEN Completes(ErrorResult("Response missing currentOpenUserId", now))
        ELSE Completes(FactorySuccess(currentOpenUserId, JUndefined, now))

\* getCurrentOpenUserId(corpAccessToken, corpId, mobile), from the answer on
GetCurrentOpenUserId(outcome, now) ==
    Caught("Get user ID error: ", UserIdBody(Request(outcome, now), now), now)

\* n in decimal, zero-padded to width digits
RECURSIVE Pad(_, _)
Pad(n, width) ==
    IF width <= 1 THEN ToString(n % 10)
    ELSE Pad(n \div 10, width - 1) \o ToString(n % 10)

MsPerSecond == 1000
MsPerMinute == 60 * MsPerSecond
MsPerHour == 60 * MsPerMinute
MsPerDay == 24 * MsPerHour

\* new Date(ms).toISOString(), for the times of January 1970
ToISOString(ms) ==
    "1970-01-" \o Pad(ms \div MsPerDay + 1, 2)
        \o "T" \o Pad((ms % MsPerDay) \div MsPerHour, 2)
        \o ":" \o Pad((ms % MsPerHour) \div MsPerMinute, 2)
        \o ":" \o Pad((ms % MsPerMinute) \div MsPerSecond, 2)
        \o "." \o Pad(ms % MsPerSecond, 3) \o "Z"

\* time ? new Date(time).toISOString() : 'N/A'.  A number is a time value; the
\* strings that reach here are no dates, and toISOString throws a RangeError
\* on the invalid Date they make.
IsoOrNA(time) ==
    IF ~Truthy(time) THEN Completes(JStr("N/A"))
    ELSE IF time.t = "number" THEN Completes(JStr(ToISOString(time.n)))
    ELSE Throws("Invalid time value")

\* the callback of dataObj.objects.map(...)
MapObject(obj) ==
    LET createdAt == IsoOrNA(Get(obj, "createTime"))
        updatedAt == IsoOrNA(Get(obj, "updateTime"))
    IN  IF Nullish(obj) THEN Throws(TypeErrorReading(obj, "describeApiName"))
        ELSE IF createdAt.threw THEN createdAt
        ELSE IF updatedAt.threw THEN updatedAt
        ELSE Completes(JObj([id |-> Or(Get(obj, "describeApiName"), JStr("N/A")),
                             name |-> Or(Get(obj, "describeDisplayName"), JStr("N/A")),
                             objectType |-> Or(Get(obj, "defineType"), JStr("N/A")),
                             createdAt |-> createdAt.value,
                             updatedAt |-> updatedAt.value,
                             isActive |-> Or(Get(obj, "isActive"), JBool(FALSE))]))

\* array.map(callback): the Error of the first element whose callback throws
MapObjects(array) ==
    LET mapped == [i \in 1..Len(array.a) |-> MapObject(array.a[i])]
        throwing == {i \in 1..Len(array.a) : mapped[i].threw}
    IN  IF throwing # {}
        THEN mapped[CHOOSE i \in throwing : \A j \in throwing : i <= j]
        ELSE Completes(JArr([i \in 1..Len(array.a) |-> mapped[i].value]))

\* x && Array.isArray(x)
IsArray(v) == Truthy(v) /\ v.t = "array"

\* the first of the keys whose field of rawData has the type, else the fallback
FirstOfType(rawData, keys, type, fallback) ==
    IF \E i \in 1..Len(keys) : TypeOf(Get(rawData, keys[i])) = type
    THEN Get(rawData, keys[CHOOSE i \in 1..Len(keys) :
                              /\ TypeOf(Get(rawData, keys[i])) = type
                              /\ \A j \in 1..(i - 1) : TypeOf(Get(rawData, keys[j])) # type])
    ELSE fallback

\* the try block of handleObjectListResponse
ListBody(rawData, now) ==
    LET data == Get(rawData, "data")
        objects ==
            IF Truthy(data) /\ TypeOf(data) = "object"
            THEN IF IsArray(Get(data, "objects")) THEN MapObjects(Get(data, "objects"))
                 ELSE IF IsArray(Get(data, "list")) THEN Completes(Get(data, "list"))
                 ELSE Completes(JArr(<<>>))
            ELSE IF IsArray(Get(rawData, "objects")) THEN Completes(Get(rawData, "objects"))
            ELSE IF IsArray(Get(rawData, "list")) THEN Completes(Get(rawData, "list"))
            ELSE Completes(JArr(<<>>))
    IN  IF Nullish(rawData) THEN Throws(TypeErrorReading(rawData, "errorCode"))
        ELSE IF Get(rawData, "errorCode") # JNum(0)
        THEN Completes(ErrorResult("API Error: " \o Template(ErrorMsg(rawData)), now))
        ELSE IF objects.threw THEN objects
        ELSE Completes(FactorySuccess(
                JObj([objects |-> objects.value,
                      totalCount |-> FirstOfType(rawData, <<"totalCount", "total", "count">>,
                                                 "number", JNum(Len(objects.value.a))),
                      pageSize |-> FirstOfType(rawData, <<"pageSize">>, "number", JNum(20)),
                      pageNumber |-> FirstOfType(rawData, <<"pageNumber", "page">>,
                                                 "number", JNum(1)),
                      hasMore |-> FirstOfType(rawData, <<"hasMore", "nextPage">>,
                                              "boolean", JBool(FALSE))]),
                JUndefined, now))

HandleObjectListResponse(apiData, now) ==
    Caught("Failed to parse object list response: ", ListBody(apiData, now), now)

\* a variant that tests errorCode the way the list path does, which C26 must
\* tell from the code's
HandleObjectResponseListPath(apiData, now) ==
    IF Nullish(apiData) \/ Get(apiData, "errorCode") # JNum(0)
    THEN ErrorResult("API Error: Unknown error", now)
    ELSE FactorySuccess(Get(apiData, "data"), JUndefined, now)

\* handleObjectResponse(apiData): nothing in its try block throws
HandleObjectResponse(apiData, now) ==
    LET parsedResponse == Parse(apiData, now)
    IN  Caught("Failed to parse object response: ",
               Completes(IF ~parsedResponse.success.b
                         THEN ErrorResult("API Error: " \o Template(parsedResponse.error), now)
                         ELSE FactorySuccess(parsedResponse.data, JUndefined, now)),
               now)

(***************************************************************************)
(* listObjects and getObject.  A call runs up to its first await, resumes  *)
(* when the identity lookup is answered, and again when the object         *)
(* endpoint is.                                                            *)
(***************************************************************************)
UserEndpoint == "/cgi/user/getByMobile"
ListEndpoint == "/cgi/crm/v2/object/list"
GetEndpoint == "/cgi/crm/v2/object/get"
Mobile == "18513231017"

\* the two messages of the preamble; the source sets the command in each
\* between backquotes, written here as single quotes
NoProfileMessage ==
    "No current profile set. Please use 'fx config --profile <name>' to set one."
NotAuthenticatedMessage == "Not authenticated. Please run 'fx auth --login' first."

\* the outer catch of listObjects / getObject
OuterPrefix(op) == IF op = "listObjects" THEN "Object list error: " ELSE "Get object error: "

Post(url, data) == [method |-> "POST", url |-> url, data |-> data, done |-> FALSE]

\* a variant that leaves the request in flight, which C13 must tell from the
\* code's
StillInFlight(log) == log

\* the request is answered: it is no longer in flight
Answered(log) == [i \in 1..Len(log) |-> [log[i] EXCEPT !.done = TRUE]]

\* msg is the error of the identity lookup, when the call ends on it
ObjectReturn(op, value, msg) ==
    /\ result' = value
    /\ pc' = Idle
    /\ last' = [NoCommand EXCEPT !.op = op, !.msg = msg]
    /\ UNCHANGED <<file, defaultConfig, calls>>

\* listObjects(options) / getObject(objectId, options), up to the first await;
\* result is what the call returned, nothing yet
ObjectStart(op, options, objectId, now) ==
    LET found == CurrentProfileOutcome(Fresh)
        currentProfile == Load(Fresh).profiles[found.value]
    IN  /\ pc.at = "idle"
        /\ raw' = JUndefined
        /\ IF found.threw
           THEN /\ ObjectReturn(op, Caught(OuterPrefix(op), found, now), "")
                /\ requests' = <<>>
           ELSE IF found.value = 0
           THEN /\ ObjectReturn(op, ErrorResult(NoProfileMessage, now), "")
                /\ requests' = <<>>
           ELSE IF Falsy(currentProfile, "corpAccessToken") \/ Falsy(currentProfile, "corpId")
           THEN /\ ObjectReturn(op, ErrorResult(NotAuthenticatedMessage, now), "")
                /\ requests' = <<>>
           ELSE /\ requests' = <<Post(UserEndpoint,
                                      [corpAccessToken |-> currentProfile.corpAccessToken,
                                       corpId |-> currentProfile.corpId,
                                       mobile |-> Mobile])>>
                /\ pc' = [at |-> "identity", op |-> op, options |-> options,
                          objectId |-> objectId,
                          corpAccessToken |-> currentProfile.corpAccessToken,
                          corpId |-> currentProfile.corpId]
                /\ last' = [NoCommand EXCEPT !.op = op]
                /\ result' = JUndefined
                /\ UNCHANGED <<file, defaultConfig, calls>>

\* the requestData of the object endpoint
RequestData(call, currentOpenUserId) ==
    LET common == [corpAccessToken |-> call.corpAccessToken, corpId |-> call.corpId,
                   currentOpenUserId |-> currentOpenUserId]
        paging == [pageSize |-> Or(call.options.pageSize, JNum(20)).n,
                   pageNumber |-> Or(call.options.pageNumber, JNum(1)).n]
    IN  IF call.op = "getObject" THEN Spread(common, [objectId |-> call.objectId])
        ELSE IF Truthy(call.options.objectType)
        THEN Spread(Spread(common, paging), [objectType |-> call.options.objectType.s])
        ELSE Spread(common, paging)

\* from the answer of getCurrentOpenUserId to the second await
IdentityAnswered(outcome, now) ==
    LET userResponse == GetCurrentOpenUserId(outcome, now)
    IN  /\ pc.at = "identity"
        /\ raw' = IF outcome.resolved THEN outcome.data ELSE JUndefined
        /\ IF ~userResponse.success.b
           THEN /\ ObjectReturn(pc.op,
                                ErrorResult("Failed to get currentOpenUserId: "
                                            \o Template(userResponse.error), now),
                                Template(userResponse.error))
                /\ requests' = Answered(requests)
           ELSE /\ requests' = Append(Answered(requests),
                                      Post(IF pc.op = "getObject" THEN GetEndpoint
                                           ELSE ListEndpoint,
                                           RequestData(pc, userResponse.data.s)))
                /\ pc' = [pc EXCEPT !.at = "object"]
                /\ UNCHANGED <<file, defaultConfig, calls, result, last>>

\* from the answer of the object endpoint to the return
ObjectAnswered(outcome, now) ==
    LET response == Request(outcome, now)
    IN  /\ pc.at = "object"
        /\ raw' = IF outcome.resolved THEN outcome.data ELSE JUndefined
        /\ requests' = Answered(requests)
        /\ ObjectReturn(pc.op,
             IF ~response.success.b
             THEN ErrorResult((IF pc.op = "getObject" THEN "Failed to fetch object: "
                               ELSE "Failed to fetch objects: ")
                              \o Template(response.error), now)
             ELSE IF pc.op = "getObject" THEN HandleObjectResponse(response.data, now)
             ELSE HandleObjectListResponse(response.data, now),
             "")

\* the stores the object operations run on: no file, an unparsable file, a
\* document whose profiles field is null, or a document whose first profile has
\* the token and the corpId unset, empty or set
TokenFields ==
    [corpAccessToken : {JUndefined, JStr(""), JStr("tok")},
     corpId : {JUndefined, JStr(""), JStr("c1")}]

ObjectStores ==
    {Absent, Corrupt, Misshapen} \cup
    {Json([PristineConfig EXCEPT !.profiles = <<ProfileWith(name, fields)>> \o others]) :
        name \in ProfileNames, fields \in TokenFields, others \in {<<>>, <<OtherProfile>>}}

NoOptions == [pageSize |-> JUndefined, pageNumber |-> JUndefined, objectType |-> JUndefined]

ListOptions ==
    {NoOptions,
     [pageSize |-> JNum(50), pageNumber |-> JNum(2), objectType |-> JStr("custom")],
     [pageSize |-> JNum(0), pageNumber |-> JUndefined, objectType |-> JStr("")]}

ObjectIds == {"obj-1"}

\* the bodies the identity lookup answers with
Employees ==
    {JUndefined, JStr("none"), JArr(<<>>), JArr(<<JNull>>),
     JArr(<<JObj([openUserId |-> JStr("FSUID_1")]), JObj([openUserId |-> JStr("FSUID_9")])>>),
     JArr(<<JObj([openUserId |-> JNum(7)])>>),
     JArr(<<JObj([openUserId |-> JStr("")])>>)}

IdentityBodies ==
    {JUndefined, JNull, JStr("<html>")}
        \cup {BodyOf(fields) :
                fields \in [errorCode : {JNum(0)},
                            empList : Employees,
                            currentOpenUserId : {JUndefined, JStr("FSUID_2")},
                            userId : {JUndefined, JNum(9), JStr("FSUID_3")},
                            id : {JUndefined, JStr("FSUID_4")}]}
        \cup {BodyOf(fields) :
                fields \in [errorCode : {JUndefined, JStr("0"), JNum(500)},
                            errorMessage : {JUndefined, JStr("denied")},
                            errorDescription : {JUndefined, JStr("no such user")},
                            empList : {JArr(<<JObj([openUserId |-> JStr("FSUID_1")])>>)}]}

\* the bodies the object list endpoint answers with
ApiObjects ==
    {JNull,
     JObj(<<>>),
     JObj([describeApiName |-> JStr("AccountObj"), describeDisplayName |-> JStr("Account"),
           defineType |-> JStr("package"), createTime |-> JNum(90061001),
           updateTime |-> JNum(0), isActive |-> JBool(TRUE)]),
     JObj([describeApiName |-> JStr("LeadsObj"), createTime |-> JStr("soon")])}

PlainObjects == JArr(<<JObj([id |-> JStr("1"), name |-> JStr("Test Object 1")])>>)

ListData ==
    {JUndefined, JNull, JStr("text"), JObj(<<>>),
     JObj([list |-> PlainObjects]),
     JObj([objects |-> JStr("many"), list |-> PlainObjects]),
     JObj([objects |-> JArr(<<>>)])}
        \cup {JObj([objects |-> JArr(<<obj>>)]) : obj \in ApiObjects}
        \cup {JObj([objects |-> JArr(<<obj, JObj(<<>>)>>)]) : obj \in ApiObjects}

ListBodies ==
    {JUndefined, JNull, JStr("<html>")}
        \cup {BodyOf([errorCode |-> JNum(0), data |-> data]) : data \in ListData}
        \cup {BodyOf([errorCode |-> JNum(0), data |-> data, objects |-> PlainObjects]) :
                data \in {JObj(<<>>), JObj([objects |-> JStr("many")])}}
        \cup {BodyOf(fields) :
                fields \in [errorCode : {JNum(0)},
                            data : {JUndefined, JObj([list |-> PlainObjects])},
                            objects : {JUndefined, PlainObjects},
                            list : {JUndefined, JArr(<<>>)},
                            totalCount : {JUndefined, JNum(7)},
                            total : {JUndefined, JStr("8"), JNum(8)},
                            pageSize : {JUndefined, JNum(50)},
                            page : {JUndefined, JNum(3)},
                            hasMore : {JUndefined, JBool(TRUE)}]}
        \cup {BodyOf(fields) :
                fields \in [errorCode : {JUndefined, JNum(10006)},
                            errorMessage : {JUndefined, JStr("Invalid parameters")},
                            errorDescription : {JUndefined, JStr("bad page")}]}

\* the bodies the object get endpoint answers with
GetBodies ==
    {JUndefined, JNull, JStr("<html>"),
     JObj([id |-> JStr("obj-1")]),
     JObj([errorCode |-> JNum(0), errorMessage |-> JStr("success"),
           data |-> JObj([id |-> JStr("obj-1")])]),
     JObj([errorCode |-> JNum(0), errorMessage |-> JStr("success")]),
     JObj([errorCode |-> JNum(10006), errorMessage |-> JStr("Invalid parameters")]),
     JObj([errorCode |-> JNum(500)])}

ListObjects ==
    \E options \in ListOptions, now \in Clock : ObjectStart("listObjects", options, "", now)

GetObject ==
    \E objectId \in ObjectIds, now \in Clock :
        ObjectStart("getObject", NoOptions, objectId, now)

IdentityResolved ==
    \E body \in IdentityBodies, now \in Clock : IdentityAnswered(Resolved(200, body), now)

IdentityRejected ==
    \E error \in AxiosErrors, now \in Clock : IdentityAnswered(Rejected(error), now)

ListResolved ==
    /\ pc.at = "object" /\ pc.op = "listObjects"
    /\ \E body \in ListBodies, now \in Clock : ObjectAnswered(Resolved(200, body), now)

GetResolved ==
    /\ pc.at = "object" /\ pc.op = "getObject"
    /\ \E body \in GetBodies, now \in Clock : ObjectAnswered(Resolved(200, body), now)

ObjectRejected ==
    \E error \in AxiosErrors, now \in Clock : ObjectAnswered(Rejected(error), now)

ObjectInit ==
    /\ file \in ObjectStores
    /\ defaultConfig = PristineConfig
    /\ last = NoCommand
    /\ calls = 0
    /\ raw = JUndefined
    /\ result = JUndefined
    /\ pc = Idle
    /\ requests = <<>>

ObjectNext ==
    \/ ListObjects
    \/ GetObject
    \/ IdentityResolved
    \/ IdentityRejected
    \/ ListResolved
    \/ GetResolved
    \/ ObjectRejected

ObjectSpec == ObjectInit /\ [][ObjectNext]_vars

(***************************************************************************)
(* The services together: authenticate, getToken, getCorpId, listObjects   *)
(* and getObject, one call at a time, on any of the stores.                *)
(***************************************************************************)
ServiceInit ==
    /\ file \in AuthStores \cup ObjectStores
    /\ defaultConfig = PristineConfig
    /\ last = NoCommand
    /\ calls = 0
    /\ raw = JUndefined
    /\ result = JUndefined
    /\ pc = Idle
    /\ requests = <<>>

ServiceNext == AuthNext \/ ObjectNext

ServiceSpec == ServiceInit /\ [][ServiceNext]_vars

(***************************************************************************)
(* Two CLI processes writing the same config file.  A command reads the    *)
(* file (readFileSync), builds its document, and writes it with            *)
(* writeFileSync, which opens the file truncating it and then writes the   *)
(* text from offset 0.  Nothing locks the file, so the reads, opens and    *)
(* writes of the two processes interleave.                                 *)
(***************************************************************************)
Procs == {1, 2}

RECURSIVE SumOver(_, _)
SumOver(f, keys) ==
    IF keys = {} THEN 0
    ELSE LET key == CHOOSE k \in keys : TRUE
         IN  f[key] + SumOver(f, keys \ {key})

\* the length of JSON.stringify(config, null, 2)
QuotedLength(text) == Len(text) + 2
FieldLength(key, value) ==
    QuotedLength(key) + 2
        + (IF key = "timeout" THEN Len(ToString(value)) ELSE QuotedLength(value))
ProfileLength(profile) ==
    6 + SumOver([key \in DOMAIN profile |-> 6 + FieldLength(key, profile[key]) + 2],
                DOMAIN profile) - 1 + 5
ProfilesLength(profiles) ==
    IF profiles = <<>> THEN 2
    ELSE 2 + SumOver([i \in 1..Len(profiles) |-> ProfileLength(profiles[i]) + 2],
                     1..Len(profiles)) - 1 + 3
TextLength(config) ==
    2 + (2 + QuotedLength("profiles") + 2 + ProfilesLength(config.profiles) + 2)
      + (2 + FieldLength("currentProfile", config.currentProfile) + 2)
      + (2 + QuotedLength("defaultTimeout") + 2 + Len(ToString(config.defaultTimeout)) + 2)
      + (2 + FieldLength("userAgent", config.userAgent) + 1)
      + 1

Truncated == [kind |-> "empty"]   \* the file after open with O_TRUNC

\* the file holds the text of head followed by what is left of the longer text
\* of tail: no JSON document
Mixed(head, tail) == [kind |-> "mixed", head |-> head, tail |-> tail]

\* the file after a process wrote the text of config from offset 0
Overwritten(f, config) ==
    IF f.kind = "json" /\ TextLength(f.doc) > TextLength(config)
    THEN Mixed(config, f.doc)
    ELSE Json(Stringify(config))

\* the writes the two commands make
RaceOps ==
    {<<"setProfileValue", "default", <<"corpId", "c1">>>>,
     <<"setProfileValue", "default", <<"timeout", "1000">>>>,
     <<"setCurrentProfile", "default", <<"", "">>>>,
     <<"add", "work", <<"", "">>>>}

Starting == [at |-> "start"]

\* load() and the mutation: the document the command will write, or the Error
\* it ends with
RaceLoad(p) ==
    /\ pc[p].at = "start"
    /\ \E op \in RaceOps :
        LET r == Apply(op[1], Fresh, op[2], op[3], TRUE, TRUE)
        IN  pc' = [pc EXCEPT ![p] =
                      IF r.threw THEN [at |-> "done", op |-> op, threw |-> TRUE]
                      ELSE [at |-> "loaded", op |-> op, config |-> r.st.file.doc]]
    /\ UNCHANGED <<file, defaultConfig, last, calls, raw, result, requests>>

\* writeFileSync, opening the file
RaceOpen(p) ==
    /\ pc[p].at = "loaded"
    /\ file' = Truncated
    /\ pc' = [pc EXCEPT ![p].at = "opened"]
    /\ UNCHANGED <<defaultConfig, last, calls, raw, result, requests>>

\* writeFileSync, writing the text and returning; result is the document of the
\* process that saved last
RaceWrite(p) ==
    /\ pc[p].at = "opened"
    /\ file' = Overwritten(file, pc[p].config)
    /\ pc' = [pc EXCEPT ![p] = [at |-> "done", op |-> pc[p].op, threw |-> FALSE,
                                config |-> pc[p].config]]
    /\ result' = Json(Stringify(pc[p].config))
    /\ last' = [NoCommand EXCEPT !.op = pc[p].op[1], !.name = pc[p].op[2]]
    /\ UNCHANGED <<defaultConfig, calls, raw, requests>>

RaceInit ==
    /\ file \in {Absent, Json(Stringify(PristineConfig))}
    /\ defaultConfig = PristineConfig
    /\ last = NoCommand
    /\ calls = 0
    /\ raw = JUndefined
    /\ result = JUndefined
    /\ pc = [p \in Procs |-> Starting]
    /\ requests = <<>>

RaceNext == \E p \in Procs : RaceLoad(p) \/ RaceOpen(p) \/ RaceWrite(p)

RaceSpec == RaceInit /\ [][RaceNext]_vars

(***************************************************************************)
(* HttpClient: the request interceptor reads the settings of the current   *)
(* profile anew for every request it lets through.                         *)
(***************************************************************************)
\* profile?.[key] || fallback; index 0 stands for an undefined profile
FieldOr(profiles, idx, key, zero, fallback) ==
    IF idx # 0 /\ key \in DOMAIN profiles[idx] /\ profiles[idx][key] # zero
    THEN profiles[idx][key]
    ELSE fallback

\* getConfig()
GetConfig(s) ==
    LET currentProfile == CurrentIndex(s)
        profiles == Load(s).profiles
    IN  [baseURL |-> FieldOr(profiles, currentProfile, "baseUrl", "", "https://api.example.com"),
         timeout |-> FieldOr(profiles, currentProfile, "timeout", 0, 30000),
         userAgent |-> "fx-cli/1.0.0"]

\* the texts config --set timeout=<text> is run with
TransportTimeouts == {"0", "1000", "-5", "abc"}

\* the stores the commands start from: no profile has a timeout yet
TransportStores ==
    {Absent}
        \cup {Json([PristineConfig EXCEPT
                        !.profiles = <<[name |-> "default"],
                                       [name |-> "work", baseUrl |-> "https://open.fxiaoke.com"]>>,
                        !.currentProfile = current]) :
                current \in {"default", "work", "nobody"}}

\* config --set timeout=<text> --profile <name>
TransportSetTimeout ==
    \E name \in ProfileNames, value \in TransportTimeouts, writeOk \in BOOLEAN :
        LET r == SetProfileValueOp(Fresh, name, "timeout", value, writeOk)
        IN  /\ file' = r.st.file
            /\ last' = [key |-> "timeout", value |-> value]
                            @@ Outcome("setProfileValue", name, Fresh, r)
            /\ UNCHANGED <<defaultConfig, calls, raw, result, pc, requests>>

\* config --use <name>
TransportUse == SetCurrentProfile

\* a request passing the request interceptor: it leaves with the baseURL, the
\* timeout and the User-Agent getConfig() returned
TransportSend ==
    \E url \in {AuthEndpoint} :
        /\ requests' = <<GetConfig(Fresh) @@ Post(url, JObj(<<>>))>>
        /\ last' = [NoCommand EXCEPT !.op = "post"]
        /\ UNCHANGED <<file, defaultConfig, calls, raw, result, pc>>

TransportInit ==
    /\ file \in TransportStores
    /\ defaultConfig = PristineConfig
    /\ last = NoCommand
    /\ calls = 0
    /\ raw = JUndefined
    /\ result = JUndefined
    /\ pc = Idle
    /\ requests = <<>>

TransportNext == TransportSetTimeout \/ TransportUse \/ TransportSend

TransportSpec == TransportInit /\ [][TransportNext]_vars

(***************************************************************************)
(* A session: auth --logout, auth --login, the getters and the object       *)
(* operations, one after the other, on a store whose active profile has its *)
(* credentials, a token and a corpId, beside a second profile.              *)
(***************************************************************************)
SessionProfile ==
    [name |-> "default", appId |-> "FSAID_1", appSecret |-> "secret", permanentCode |-> "B28E",
     corpAccessToken |-> "tok", corpId |-> "c1"]

SessionStore == Json([PristineConfig EXCEPT !.profiles = <<SessionProfile, OtherProfile>>])

\* auth --logout, run when no service call is under way
SessionLogout == pc.at = "idle" /\ Logout

SessionInit ==
    /\ file = SessionStore
    /\ defaultConfig = PristineConfig
    /\ last = NoCommand
    /\ calls = 0
    /\ raw = JUndefined
    /\ result = JUndefined
    /\ pc = Idle
    /\ requests = <<>>

\* The object endpoint is unreachable in this session: a call that gets as far as
\* posting to it ends in ObjectRejected.
SessionNext ==
    \/ SessionLogout
    \/ AuthNext
    \/ ListObjects
    \/ GetObject
    \/ IdentityResolved
    \/ IdentityRejected
    \/ ObjectRejected

SessionSpec == SessionInit /\ [][SessionNext]_vars

(***************************************************************************)
(* getToken / getCorpId on stores whose profiles hold a token, a corpId and *)
(* a tokenExpiry in any combination, and whose pointer names the first      *)
(* profile, the second, or none.                                            *)
(***************************************************************************)
\* tokenExpiry values: before and after every value of Clock
Expiries == {1, 2000000000}

GetterProfiles ==
    {ProfileWith("default", fields) : fields \in TokenFields}
        \cup {ProfileWith("default", fields) @@ [tokenExpiry |-> e] :
                fields \in TokenFields, e \in Expiries}

GetterStores ==
    {Absent, Corrupt, Misshapen} \cup
    {Json([PristineConfig EXCEPT !.profiles = <<profile, OtherProfile>>,
                                 !.currentProfile = current]) :
        profile \in GetterProfiles, current \in {"default", "other", "nobody"}}

GetterInit ==
    /\ file \in GetterStores
    /\ defaultConfig = PristineConfig
    /\ last = NoCommand
    /\ calls = 0
    /\ raw = JUndefined
    /\ result = JUndefined
    /\ pc = Idle
    /\ requests = <<>>

GetterNext == GetToken \/ GetCorpId

GetterSpec == GetterInit /\ [][GetterNext]_vars

(***************************************************************************)
(* save(load()): a process that loads the config and saves what it loaded,  *)
(* on a file that holds any JSON object: one the program wrote, one written *)
(* by hand with only some of the keys of Config, or one with a key of its   *)
(* own.                                                                     *)
(***************************************************************************)
ConfigKeys == {"profiles", "currentProfile", "defaultTimeout", "userAgent"}

\* the values the keys of a document hold
DocumentValues ==
    [profiles : {<<[name |-> "default"]>>,
                 <<[name |-> "default", corpId |-> "c1", timeout |-> 1000], [name |-> "work"]>>,
                 <<[name |-> "work"]>>},
     currentProfile : {"default", "work"},
     defaultTimeout : {30000, 5000},
     userAgent : {"fx-cli/1.0.0", "fx-cli/2.0.0"},
     theme : {"dark"}]

\* JSON.parse(data) of a file that holds an object with some of these keys
Documents ==
    {[k \in keys |-> d[k]] :
        d \in DocumentValues, keys \in SUBSET (ConfigKeys \cup {"theme"}) \ {{}}}

\* this.save(this.load())
SaveLoad ==
    \E writeOk \in BOOLEAN :
        LET r == Save(Fresh, Load(Fresh), writeOk)
        IN  /\ calls < MaxCalls
            /\ file' = r.st.file
            /\ last' = Outcome("saveLoad", "", Fresh, r)
            /\ calls' = calls + 1
            /\ UNCHANGED <<defaultConfig, raw, result, pc, requests>>

RoundTripInit ==
    /\ file \in {Absent, Corrupt} \cup {Json(d) : d \in Documents}
    /\ defaultConfig = PristineConfig
    /\ last = NoCommand
    /\ calls = 0
    /\ raw = JUndefined
    /\ result = JUndefined
    /\ pc = Idle
    /\ requests = <<>>

RoundTripNext == SaveLoad

RoundTripSpec == RoundTripInit /\ [][RoundTripNext]_vars

(***************************************************************************)
(* Properties.  The readings below are the specification's, written        *)
(* without the operators that model the code.                              *)
(***************************************************************************)
\* the persisted profiles list and active pointer: those of the document, or of
\* the pristine default when nothing is persisted
PersistedProfiles ==
    IF file.kind = "json" /\ "profiles" \in DOMAIN file.doc
    THEN file.doc.profiles ELSE <<[name |-> "default"]>>
PersistedCurrent ==
    IF file.kind = "json" /\ "currentProfile" \in DOMAIN file.doc
    THEN file.doc.currentProfile ELSE "default"

\* C1: the persisted currentProfile always names a profile of the persisted
\* profiles list, whatever sequence of store operations ran.
C1_CurrentProfileExists ==
    \E i \in 1..Len(PersistedProfiles) : PersistedProfiles[i].name = PersistedCurrent

\* C2: no two persisted profiles have the same name, and a config --add that
\* fails because the name exists leaves the file as it was.
C2_ProfileNamesUnique ==
    /\ \A i, j \in 1..Len(PersistedProfiles) :
          i # j => PersistedProfiles[i].name # PersistedProfiles[j].name
    /\ (last.op = "add" /\ last.threw) => last.same

\* C3: a profile named 'default' is always persisted, and config --remove default
\* is rejected and leaves the file as it was.
C3_DefaultProfileExists ==
    /\ \E i \in 1..Len(PersistedProfiles) : PersistedProfiles[i].name = "default"
    /\ (last.op = "remove" /\ last.name = "default") => (last.threw /\ last.same)

\* C4: on one ConfigManager, load() returns what the persisted document
\* determines (the pristine default when there is none): a mutation whose save
\* failed is not seen.
C4_LoadSeesOnlyPersisted ==
    Load(Here) = IF file.kind = "json"
                 THEN Spread(PristineConfig, file.doc)
                 ELSE PristineConfig

\* an API envelope: numeric errorCode and string errorMessage
IsEnvelope(v) ==
    /\ v.t = "object"
    /\ "errorCode" \in DOMAIN v.o /\ v.o.errorCode.t = "number"
    /\ "errorMessage" \in DOMAIN v.o /\ v.o.errorMessage.t = "string"
Field(v, key) == IF key \in DOMAIN v.o THEN v.o[key] ELSE JUndefined
ApiErrorString(v) ==
    JStr("Fxiaoke API Error (" \o ToString(v.o.errorCode.n) \o "): " \o v.o.errorMessage.s)

\* C5: parse of an envelope is Success, status 200, data the envelope's data
\* field when errorCode is 0, and otherwise Failure with the API error text made
\* of the code and the message, and the envelope's errorCode and errorMessage.
C5_ParseEnvelope ==
    (last.op = "parse" /\ IsEnvelope(raw)) =>
        IF raw.o.errorCode.n = 0
        THEN /\ result.success = JBool(TRUE)
             /\ result.status = JNum(200)
             /\ result.data = Field(raw, "data")
        ELSE /\ result.success = JBool(FALSE)
             /\ result.error = ApiErrorString(raw)
             /\ result.errorCode = raw.o.errorCode
             /\ result.errorMessage = raw.o.errorMessage

C5_Witness ==
    /\ last.op = "parse" /\ IsEnvelope(raw)
    /\ raw.o.errorCode.n = 10006
    /\ result.success = JBool(FALSE)
    /\ result.error = JStr("Fxiaoke API Error (10006): Invalid parameters")

\* C6: parse always returns a result, and for an input that is no envelope the
\* result is Success, status 200, with the input itself as data.
C6_ParseNonEnvelope ==
    last.op = "parse" =>
        /\ result.success.t = "boolean"
        /\ ~IsEnvelope(raw) =>
              /\ result.success = JBool(TRUE)
              /\ result.status = JNum(200)
              /\ result.data = raw

C6_Witness ==
    /\ last.op = "parse"
    /\ raw.t = "object" /\ "errorCode" \in DOMAIN raw.o /\ "errorMessage" \notin DOMAIN raw.o
    /\ result.data = raw

\* C7: isRetryableError is true exactly for the codes 10001, 10002, 10003, 500,
\* 502, 503, 504.
C7_RetryableTable ==
    last.op = "isRetryableError" =>
        result = JBool(raw.o.errorCode.n \in {10001, 10002, 10003, 500, 502, 503, 504})

C7_Witness ==
    last.op = "isRetryableError" /\ raw.o.errorCode.n = 504 /\ result = JBool(TRUE)

\* C8: a result is a Success with a data field and no error field, or a Failure
\* with an error string and no data field; it has a timestamp either way.
ResultOps ==
    {"parse", "parseAuthResponse", "success", "error", "fromException",
     "fromHttpStatus", "http"}
C8_ExactlyOneTag ==
    last.op \in ResultOps =>
        /\ result.success.t = "boolean"
        /\ "timestamp" \in DOMAIN result /\ result.timestamp.t = "number"
        /\ IF result.success.b
           THEN "data" \in DOMAIN result /\ "error" \notin DOMAIN result
           ELSE /\ "error" \in DOMAIN result /\ result.error.t = "string"
                /\ "data" \notin DOMAIN result

C8_Witness ==
    last.op = "http" /\ result.success = JBool(FALSE)
        /\ result.error = JStr("HTTP Error 999")

\* C9: parseAuthResponse is Success exactly for an envelope with errorCode 0 and
\* a non-empty token and corpId, with the three auth fields as data; the other
\* inputs get the Failure of their case.
NonEmpty(v) == v.t = "string" /\ v.s # ""
AuthFieldsPresent(v) ==
    NonEmpty(Field(v, "corpAccessToken")) /\ NonEmpty(Field(v, "corpId"))
C9_ParseAuthResponse ==
    last.op = "parseAuthResponse" =>
        IF ~IsEnvelope(raw)
        THEN /\ result.success = JBool(FALSE)
             /\ result.error = JStr("Response is not in Fxiaoke API format")
        ELSE IF raw.o.errorCode.n # 0
        THEN /\ result.success = JBool(FALSE)
             /\ result.error = ApiErrorString(raw)
        ELSE IF ~AuthFieldsPresent(raw)
        THEN /\ result.success = JBool(FALSE)
             /\ result.error =
                  JStr("Authentication response missing required fields (corpAccessToken, corpId)")
        ELSE /\ result.success = JBool(TRUE)
             /\ result.data.t = "object"
             /\ DOMAIN result.data.o = {"corpAccessToken", "corpId", "expiresIn"}
             /\ \A k \in DOMAIN result.data.o : result.data.o[k] = Field(raw, k)

C9_Witness ==
    /\ last.op = "parseAuthResponse" /\ IsEnvelope(raw)
    /\ raw.o.errorCode.n = 0
    /\ Field(raw, "corpAccessToken") = JStr("token-123")
    /\ Field(raw, "corpId") = JStr("")
    /\ result.success = JBool(FALSE)

\* C10: authenticate on a store with no active profile, or whose active profile
\* lacks a non-empty appId, appSecret or permanentCode, posts nothing, returns a
\* failure and leaves the file as it was; on any other store it posts once to the
\* authentication endpoint, with exactly the three credentials as body, and the
\* log of its requests still holds that one POST after the answer, whatever it is.
HasCredentials(profile) ==
    \A key \in {"appId", "appSecret", "permanentCode"} :
        key \in DOMAIN profile /\ profile[key] # ""
CredentialsPost(profile) ==
    [method |-> "POST",
     url |-> "/cgi/corpAccessToken/get/V2",
     data |-> [appId |-> profile.appId, appSecret |-> profile.appSecret,
               permanentCode |-> profile.permanentCode]]
C10_AuthenticateRequests ==
    last.op = "authenticate" =>
        IF \E i \in 1..Len(PersistedProfiles) :
              /\ PersistedProfiles[i].name = PersistedCurrent
              /\ HasCredentials(PersistedProfiles[i])
        THEN \E i \in 1..Len(PersistedProfiles) :
              /\ PersistedProfiles[i].name = PersistedCurrent
              /\ requests = <<CredentialsPost(PersistedProfiles[i])>>
        ELSE /\ requests = <<>>
             /\ pc.at = "idle"
             /\ result.success = FALSE
             /\ last.same

\* authenticate answered with the retryable code 500: one POST, a failure
C10_Witness ==
    /\ last.op = "authenticate" /\ pc.at = "idle"
    /\ Len(requests) = 1
    /\ requests[1].data = [appId |-> "FSAID_1", appSecret |-> "secret",
                           permanentCode |-> "B28E"]
    /\ result = [success |-> FALSE, error |-> "Fxiaoke API Error (500): success"]

\* C11: when authenticate returns a success, the persisted active profile holds
\* the returned accessToken and corpId, which are the corpAccessToken and corpId
\* of the endpoint's answer; and a getToken() or getCorpId() made next returns
\* the returned accessToken or corpId.
AuthSucceeded ==
    last.op = "authenticate" /\ pc.at = "idle" /\ result.success
ActiveHolds(key, value) ==
    \E i \in 1..Len(PersistedProfiles) :
        /\ PersistedProfiles[i].name = PersistedCurrent
        /\ \A j \in 1..(i - 1) : PersistedProfiles[j].name # PersistedCurrent
        /\ key \in DOMAIN PersistedProfiles[i]
        /\ PersistedProfiles[i][key] = value
C11_SuccessIsPersisted ==
    [][/\ AuthSucceeded' =>
            /\ ActiveHolds("corpAccessToken", result.accessToken)'
            /\ ActiveHolds("corpId", result.corpId)'
            /\ Field(raw, "corpAccessToken")' = JStr(result.accessToken)'
            /\ Field(raw, "corpId")' = JStr(result.corpId)'
       /\ (AuthSucceeded /\ last'.op = "getToken") => result' = JStr(result.accessToken)
       /\ (AuthSucceeded /\ last'.op = "getCorpId") => result' = JStr(result.corpId)]_vars

\* getCorpId() returning the corpId authenticate just stored
C11_Witness ==
    /\ last.op = "getCorpId" /\ result = JStr("corp-456")
    /\ ActiveHolds("corpAccessToken", "token-123")
    /\ ActiveHolds("appId", "FSAID_1")

\* the first persisted profile the active pointer names has these fields set
\* and not empty
ActiveHasAll(keys) ==
    \E i \in 1..Len(PersistedProfiles) :
        /\ PersistedProfiles[i].name = PersistedCurrent
        /\ \A j \in 1..(i - 1) : PersistedProfiles[j].name # PersistedCurrent
        /\ \A key \in keys :
              key \in DOMAIN PersistedProfiles[i] /\ PersistedProfiles[i][key] # ""
ObjectOps == {"listObjects", "getObject"}

\* C12: on a store with no active profile, or whose active profile lacks a
\* non-empty token or corpId, listObjects and getObject post nothing and return
\* the 'Not authenticated' failure.
C12_NotAuthenticated ==
    (last.op \in ObjectOps /\ file # Misshapen
        /\ ~ActiveHasAll({"corpAccessToken", "corpId"})) =>
        /\ requests = <<>>
        /\ pc.at = "idle"
        /\ result.success = JBool(FALSE)
        /\ result.error = JStr("Not authenticated. Please run 'fx auth --login' first.")

\* C13: a run of listObjects or getObject posts at most twice, one request in
\* flight at a time: first the identity lookup, then, once that is answered with
\* errorCode 0 and an identity, the object endpoint with that identity; a lookup
\* that fails ends the run with 'Failed to get currentOpenUserId: <its error>'
\* and without a second post; and no post is made again.
InFlight(log) == {i \in 1..Len(log) : ~log[i].done}
Identities(body) ==
    {v.s : v \in {w \in {Field(body, "currentOpenUserId"), Field(body, "userId"),
                         Field(body, "id")}
                      \cup (IF Field(body, "empList").t = "array"
                               /\ Field(body, "empList").a # <<>>
                               /\ Field(body, "empList").a[1].t = "object"
                            THEN {Field(Field(body, "empList").a[1], "openUserId")}
                            ELSE {}) :
                    w.t = "string" /\ w.s # ""}}
C13_OneChain ==
    [][last'.op \in ObjectOps =>
        /\ Len(requests') <= 2
        /\ Cardinality(InFlight(requests')) <= 1
        /\ InFlight(requests') # {} <=> pc'.at # "idle"
        /\ requests' # <<>> =>
              /\ requests'[1].url = "/cgi/user/getByMobile"
              /\ requests'[1].method = "POST"
        /\ Len(requests') = 2 =>
              /\ requests'[1].done
              /\ requests'[2].method = "POST"
              /\ requests'[2].url = IF last'.op = "listObjects"
                                    THEN "/cgi/crm/v2/object/list"
                                    ELSE "/cgi/crm/v2/object/get"
        /\ (Len(requests) = 1 /\ Len(requests') = 2) =>
              /\ raw'.t = "object"
              /\ Field(raw', "errorCode") = JNum(0)
              /\ requests'[2].data.currentOpenUserId \in Identities(raw')
        /\ (pc.at = "identity" /\ pc'.at = "idle") =>
              /\ Len(requests') = 1
              /\ result'.success = JBool(FALSE)
              /\ result'.error = JStr("Failed to get currentOpenUserId: " \o last'.msg)
        /\ pc.at = "object" =>
              /\ pc'.at = "idle"
              /\ requests' = [i \in 1..2 |-> [requests[i] EXCEPT !.done = TRUE]]
      ]_vars

\* listObjects ended after both posts, the second carrying the identity found
\* in the userId field of the lookup's answer
C13_Witness ==
    /\ last.op = "listObjects" /\ pc.at = "idle"
    /\ Len(requests) = 2 /\ InFlight(requests) = {}
    /\ requests[2].data.currentOpenUserId = "FSUID_3"
    /\ result.success = JBool(TRUE)

\* C14: every authenticate, listObjects and getObject that ends has returned a
\* success or a failure carrying a non-empty error string, and no Error has
\* left the call: on every store (no file, an unparsable file, a document of
\* another shape), for every way the transport ends and every body.
C14_NeverRaises ==
    (pc.at = "idle" /\ last.op \in ObjectOps \cup {"authenticate"}) =>
        /\ "raised" \notin DOMAIN result
        /\ "success" \in DOMAIN result
        /\ IF last.op = "authenticate"
           THEN /\ result.success \in BOOLEAN
                /\ ~result.success =>
                      /\ "error" \in DOMAIN result
                      /\ result.error \in STRING
                      /\ result.error # ""
           ELSE /\ result.success.t = "boolean"
                /\ ~result.success.b =>
                      /\ "error" \in DOMAIN result
                      /\ result.error.t = "string"
                      /\ result.error.s # ""

\* listObjects answered with an object whose createTime is no date: the
\* RangeError of the extraction is returned as a failure
C14_Witness ==
    /\ pc.at = "idle" /\ last.op = "listObjects"
    /\ Len(requests) = 2
    /\ result.success = JBool(FALSE)
    /\ result.error = JStr("Failed to parse object list response: Invalid time value")

\* C15: when two processes have each saved, with no Error, the file holds
\* exactly the document of the one that saved last.
C15_LastWriterWins ==
    (\A p \in DOMAIN pc : pc[p].at = "done" /\ ~pc[p].threw) => file = result

\* what a successful config --remove of name makes of the persisted profiles
\* and pointer: the first profile of that name is gone, the others are as they
\* were, and the pointer is 'default' if it was name and as it was if not
Stored(name) == \E i \in 1..Len(PersistedProfiles) : PersistedProfiles[i].name = name
Removed(name) ==
    \E i \in 1..Len(PersistedProfiles) :
        /\ PersistedProfiles[i].name = name
        /\ \A j \in 1..(i - 1) : PersistedProfiles[j].name # name
        /\ Len(PersistedProfiles') = Len(PersistedProfiles) - 1
        /\ \A j \in 1..(i - 1) : PersistedProfiles'[j] = PersistedProfiles[j]
        /\ \A j \in i..Len(PersistedProfiles') : PersistedProfiles'[j] = PersistedProfiles[j + 1]
        /\ PersistedCurrent' = IF PersistedCurrent = name THEN "default" ELSE PersistedCurrent
NotFound(name) ==
    /\ last'.threw
    /\ last'.msg = "Profile '" \o name \o "' not found"
    /\ file' = file

\* C16, as stated: a config --remove that succeeds deletes exactly the named
\* profile and moves the pointer to 'default' only if it named that profile; a
\* config --remove of a name that is not stored fails with "Profile '<name>'
\* not found" and leaves the file as it was.
C16_RemoveAsStated ==
    [][last'.op = "remove" =>
        /\ ~last'.threw => Removed(last'.name)
        /\ last'.threw => file' = file
        /\ ~Stored(last'.name) => NotFound(last'.name)]_vars

\* C16, amended: the same, except that a config --remove of 'default' is
\* rejected with 'Cannot remove the default profile' whether or not a profile of
\* that name is stored.
C16_Remove ==
    [][last'.op = "remove" =>
        /\ ~last'.threw => Removed(last'.name)
        /\ last'.threw => file' = file
        /\ (~Stored(last'.name) /\ last'.name # "default") => NotFound(last'.name)
        /\ last'.name = "default" =>
              /\ last'.threw
              /\ last'.msg = "Cannot remove the default profile"]_vars

\* the active profile 'work' was removed and the pointer is back on 'default'
C16_Witness ==
    /\ last.op = "remove" /\ last.name = "work" /\ ~last.threw
    /\ PersistedCurrent = "default"
    /\ \A i \in 1..Len(PersistedProfiles) : PersistedProfiles[i].name # "work"
    /\ \E i \in 1..Len(PersistedProfiles) : "corpId" \in DOMAIN PersistedProfiles[i]

\* the name of the profile a getCurrentProfile() of a new process returns, and
\* "" when it returns undefined
ActiveName ==
    LET found == [i \in 1..Len(PersistedProfiles) |-> PersistedProfiles[i].name = PersistedCurrent]
    IN  IF \E i \in DOMAIN found : found[i] THEN PersistedCurrent ELSE ""

\* C17: setCurrentProfile(name) of a name no stored profile bears fails with
\* "Profile '<name>' not found" and writes nothing; of a stored name it persists
\* the pointer, so that getCurrentProfile() then returns the profile of that
\* name (unless the write itself fails, which leaves the file as it was).
C17_SetCurrentProfile ==
    [][last'.op = "setCurrentProfile" =>
        /\ ~Stored(last'.name) => NotFound(last'.name)
        /\ Stored(last'.name) =>
              IF last'.threw
              THEN last'.msg = "Failed to save config: EACCES" /\ file' = file
              ELSE PersistedCurrent' = last'.name /\ ActiveName' = last'.name]_vars

\* the pointer was moved from 'default' to the stored profile 'work'
C17_Witness ==
    /\ last.op = "setCurrentProfile" /\ last.name = "work" /\ ~last.threw /\ ~last.same
    /\ PersistedCurrent = "work"
    /\ ActiveName = "work"

\* a text that is an integer: an optional sign and then digits, nothing else
Digits(s) ==
    IF Chars(s) # <<>> /\ Head(Chars(s)) \in {"-", "+"} THEN Tail(Chars(s)) ELSE Chars(s)
IsIntegerText(s) ==
    /\ Digits(s) # <<>>
    /\ \A i \in 1..Len(Digits(s)) : IsDigit(Digits(s)[i])
RECURSIVE Decimal(_)
Decimal(ds) ==
    IF ds = <<>> THEN 0
    ELSE 10 * Decimal(SubSeq(ds, 1, Len(ds) - 1)) + DigitVal(ds[Len(ds)])
IntegerValue(s) ==
    IF Chars(s) # <<>> /\ Head(Chars(s)) = "-" THEN 0 - Decimal(Digits(s)) ELSE Decimal(Digits(s))

\* after the step, the first persisted profile of that name has this timeout
TimeoutBecomes(name, n) ==
    \E i \in 1..Len(PersistedProfiles') :
        /\ PersistedProfiles'[i].name = name
        /\ \A j \in 1..(i - 1) : PersistedProfiles'[j].name # name
        /\ "timeout" \in DOMAIN PersistedProfiles'[i]
        /\ PersistedProfiles'[i].timeout = n

\* C18: setProfileValue(name, 'timeout', value) on a stored profile fails with
\* 'Timeout must be a positive number' and leaves the file as it was exactly
\* when value is not the text of an integer or is the text of a negative one;
\* for every other value it persists the integer as the profile's timeout
\* (unless the write itself fails, which leaves the file as it was).
C18_TimeoutValidated ==
    [][(last'.op = "setProfileValue" /\ last'.key = "timeout" /\ Stored(last'.name)) =>
        IF ~IsIntegerText(last'.value) \/ IntegerValue(last'.value) < 0
        THEN /\ last'.threw
             /\ last'.msg = "Timeout must be a positive number"
             /\ file' = file
        ELSE IF last'.threw
             THEN last'.msg = "Failed to save config: EACCES" /\ file' = file
             ELSE TimeoutBecomes(last'.name, IntegerValue(last'.value))]_vars

\* C19: while the config file is absent or does not parse, load() returns the
\* default Config: exactly one profile, named 'default', and currentProfile
\* 'default'.
C19_LoadDefaults ==
    file.kind # "json" =>
        /\ Len(Load(Here).profiles) = 1
        /\ Load(Here).profiles[1].name = "default"
        /\ Load(Here).currentProfile = "default"

Complete == file.kind = "json" /\ ConfigKeys \subseteq DOMAIN file.doc

C21_TypedConfigError ==
    last.threw => last.class = "ConfigurationError"

\* the three ways a request fails in transport
Responded(error) == error.isAxiosError /\ error.response # JUndefined
NoResponse(error) ==
    error.isAxiosError /\ error.response = JUndefined /\ error.request # JUndefined
NotSent(error) ==
    error.isAxiosError /\ error.response = JUndefined /\ error.request = JUndefined

\* C22: a request that succeeds gives a Success with the response body and the
\* HTTP status; one the server answered with an error status gives a Failure
\* with that status and the response body; one that got no response gives the
\* Failure 'Network error: No response received' without a status; one that
\* could not be sent gives the Failure 'Request error: <message>' without a
\* status.
C22_FailureShapes ==
    last.op = "http" =>
        IF last.outcome.resolved
        THEN /\ result.success = JBool(TRUE)
             /\ result.data = last.outcome.data
             /\ result.status = JNum(last.outcome.status)
        ELSE /\ result.success = JBool(FALSE)
             /\ Responded(last.outcome.error) =>
                   /\ result.status = last.outcome.error.response.o.status
                   /\ "data" \in DOMAIN result
                   /\ result.data = last.outcome.error.response.o.data
             /\ NoResponse(last.outcome.error) =>
                   /\ result.error = JStr("Network error: No response received")
                   /\ result.status = JUndefined
             /\ (NotSent(last.outcome.error) /\ last.outcome.error.message.t = "string") =>
                   /\ result.error = JStr("Request error: " \o last.outcome.error.message.s)
                   /\ result.status = JUndefined

\* the same without the response body, which the Failure does not carry
C22_ShapesWithoutBody ==
    last.op = "http" =>
        IF last.outcome.resolved
        THEN /\ result.success = JBool(TRUE)
             /\ result.data = last.outcome.data
             /\ result.status = JNum(last.outcome.status)
        ELSE /\ result.success = JBool(FALSE)
             /\ Responded(last.outcome.error) =>
                   /\ result.status = last.outcome.error.response.o.status
                   /\ "data" \notin DOMAIN result
             /\ NoResponse(last.outcome.error) =>
                   /\ result.error = JStr("Network error: No response received")
                   /\ result.status = JUndefined
             /\ (NotSent(last.outcome.error) /\ last.outcome.error.message.t = "string") =>
                   /\ result.error = JStr("Request error: " \o last.outcome.error.message.s)
                   /\ result.status = JUndefined

\* the field of the active profile as the specification has it cached: absent
\* when no persisted profile bears the pointer's name, when the profile has no
\* such field and when the field is empty
Cached(key) ==
    IF \E i \in 1..Len(PersistedProfiles) : PersistedProfiles[i].name = PersistedCurrent
    THEN LET active == PersistedProfiles[CHOOSE i \in 1..Len(PersistedProfiles) :
                            /\ PersistedProfiles[i].name = PersistedCurrent
                            /\ \A j \in 1..(i - 1) : PersistedProfiles[j].name # PersistedCurrent]
         IN  IF key \in DOMAIN active /\ active[key] # "" THEN JStr(active[key]) ELSE JNull
    ELSE JNull

\* C23: getToken() and getCorpId() post nothing and leave the file as it was;
\* on a store whose profiles are a list they return the active profile's token
\* or corpId when it is set and null when it is unset, empty or no profile is
\* active, whatever the profile's tokenExpiry.
C23_PureReads ==
    [][last'.op \in {"getToken", "getCorpId"} =>
        /\ file' = file
        /\ requests' = <<>>
        /\ file.kind # "misshapen" =>
              result' = Cached(IF last'.op = "getToken" THEN "corpAccessToken" ELSE "corpId")]_vars

\* getToken() returned the token of an active profile whose tokenExpiry is past
C23_Witness ==
    /\ last.op = "getToken"
    /\ result = JStr("tok")
    /\ PersistedCurrent = "default"
    /\ "tokenExpiry" \in DOMAIN PersistedProfiles[1]
    /\ PersistedProfiles[1].tokenExpiry = 1

\* the candidates of a lookup answer, in the order of preference: the
\* openUserId of the first element of empList, then the top-level
\* currentOpenUserId, userId and id
Candidates(body) ==
    <<IF /\ Field(body, "empList").t = "array"
         /\ Field(body, "empList").a # <<>>
         /\ Field(body, "empList").a[1].t = "object"
      THEN Field(Field(body, "empList").a[1], "openUserId") ELSE JUndefined,
      Field(body, "currentOpenUserId"), Field(body, "userId"), Field(body, "id")>>
NonEmptyText(v) == v.t = "string" /\ v.s # ""
Preferred(body) ==
    Candidates(body)[CHOOSE i \in 1..4 :
                        /\ NonEmptyText(Candidates(body)[i])
                        /\ \A j \in 1..(i - 1) : ~NonEmptyText(Candidates(body)[j])]

\* C24: when the lookup is answered with errorCode 0, the identity that goes
\* into the second post is the first non-empty one among empList[0].openUserId,
\* currentOpenUserId, userId and id, and the extraction fails (with 'Response
\* missing currentOpenUserId') only when none of the four is there.
C24_PreferenceOrder ==
    [][(pc.at = "identity" /\ pc'.at # "identity"
            /\ raw'.t = "object" /\ Field(raw', "errorCode") = JNum(0)) =>
        IF \E i \in 1..4 : NonEmptyText(Candidates(raw')[i])
        THEN /\ pc'.at = "object"
             /\ requests'[2].data.currentOpenUserId = Preferred(raw').s
        ELSE pc'.at = "idle"]_vars

\* v[key] is an array
ArrayAt(v, key) == v.t = "object" /\ key \in DOMAIN v.o /\ v.o[key].t = "array"

\* C25 (its last part): when the object list endpoint answers with errorCode 0
\* and neither data.objects nor data.list is an array, the objects of the
\* result are exactly the top-level objects array, or else the top-level list
\* array, whatever the data field holds.
C25_TopLevelObjects ==
    (/\ last.op = "listObjects" /\ pc.at = "idle" /\ Len(requests) = 2
     /\ raw.t = "object" /\ Field(raw, "errorCode") = JNum(0)
     /\ ~ArrayAt(Field(raw, "data"), "objects")
     /\ ~ArrayAt(Field(raw, "data"), "list")) =>
        /\ ArrayAt(raw, "objects") =>
              /\ result.success = JBool(TRUE)
              /\ result.data.o.objects = raw.o.objects
        /\ (~ArrayAt(raw, "objects") /\ ArrayAt(raw, "list")) =>
              /\ result.success = JBool(TRUE)
              /\ result.data.o.objects = raw.o.list

\* C26: once the preamble and both posts succeeded, getObject's result is
\* parse's on the body of the object endpoint's answer: Success with the data
\* field of an envelope whose errorCode is 0, Success with the body itself when
\* the body is no envelope (a body without errorCode is no API error), Failure
\* for an envelope whose errorCode is not 0.
C26_GenericParsePath ==
    (last.op = "getObject" /\ pc.at = "idle" /\ Len(requests) = 2 /\ raw # JUndefined) =>
        /\ result.success = Parse(raw, 0).success
        /\ IF IsEnvelope(raw)
           THEN IF raw.o.errorCode.n = 0
                THEN result.success = JBool(TRUE) /\ result.data = Field(raw, "data")
                ELSE result.success = JBool(FALSE)
           ELSE result.success = JBool(TRUE) /\ result.data = raw

\* getObject ended in Success with the whole body as data on an answer that
\* has an errorCode other than 0 but is no envelope
C26_Witness ==
    /\ last.op = "getObject" /\ pc.at = "idle" /\ Len(requests) = 2
    /\ raw = JObj([errorCode |-> JNum(500)])
    /\ result.success = JBool(TRUE)
    /\ result.data = raw

\* the persisted token and corpId of every profile ("" standing for absent is
\* told from an empty field by the flag beside it)
Has(profile, key) == IF key \in DOMAIN profile THEN <<TRUE, profile[key]>> ELSE <<FALSE, "">>
PersistedTokens ==
    [i \in 1..Len(PersistedProfiles) |->
        <<Has(PersistedProfiles[i], "corpAccessToken"), Has(PersistedProfiles[i], "corpId")>>]

\* C27: an authenticate that returns a Failure leaves the persisted token and
\* corpId of every profile as they were before the call.
C27_AllOrNothing ==
    [][(last'.op = "authenticate" /\ pc'.at = "idle" /\ ~result'.success) =>
        PersistedTokens' = PersistedTokens]_vars

\* the active profile has neither a token nor a corpId
LoggedOut == Cached("corpAccessToken") = JNull /\ Cached("corpId") = JNull

\* an authenticate returns Success in this step
LoginSucceeds == last'.op = "authenticate" /\ pc'.at = "idle" /\ result'.success

\* C28: an auth --logout that ran through leaves the active profile without
\* token and corpId and the other profiles as they were; from then on, until an
\* authenticate returns Success, getToken() and getCorpId() return null and
\* listObjects and getObject fail without posting anything.
C28_LoggedOutUntilLogin ==
    [][/\ (last'.op = "logout" /\ ~last'.threw) =>
             /\ LoggedOut'
             /\ \A i \in 1..Len(PersistedProfiles) :
                   PersistedProfiles[i].name # PersistedCurrent =>
                       PersistedProfiles'[i] = PersistedProfiles[i]
       /\ (LoggedOut /\ ~LoginSucceeds) =>
             /\ LoggedOut'
             /\ last'.op \in {"getToken", "getCorpId"} => result' = JNull
             /\ last'.op \in ObjectOps =>
                   /\ requests' = <<>>
                   /\ pc'.at = "idle"
                   /\ result'.success = JBool(FALSE)]_vars

\* the timeout the store holds for the active profile, -1 when it holds none
ActiveTimeout ==
    LET profiles == PersistedProfiles
    IN  IF \E i \in 1..Len(profiles) :
              profiles[i].name = PersistedCurrent /\ "timeout" \in DOMAIN profiles[i]
        THEN profiles[CHOOSE i \in 1..Len(profiles) :
                        /\ profiles[i].name = PersistedCurrent
                        /\ \A j \in 1..(i - 1) : profiles[j].name # PersistedCurrent].timeout
        ELSE -1

\* C29: every timeout setProfileValue accepted and persisted for the active
\* profile is the timeout of the requests sent afterwards: a request that
\* leaves while the store holds timeout t for the active profile has timeout t.
C29_TimeoutApplied ==
    (last.op = "post" /\ ActiveTimeout # -1) => requests[1].timeout = ActiveTimeout

\* C29, for the timeouts above 0
C29_PositiveTimeoutApplied ==
    (last.op = "post" /\ ActiveTimeout > 0) => requests[1].timeout = ActiveTimeout

\* what two loaded Configs have in common when they differ at most in the field
\* key of the profile at idx
SameBut(before, after, idx, key) ==
    /\ DOMAIN after = DOMAIN before
    /\ \A k \in DOMAIN before \ {"profiles"} : after[k] = before[k]
    /\ Len(after.profiles) = Len(before.profiles)
    /\ \A i \in 1..Len(before.profiles) :
          IF i = idx
          THEN /\ DOMAIN after.profiles[i] \ {key} = DOMAIN before.profiles[i] \ {key}
               /\ \A k \in DOMAIN before.profiles[i] \ {key} :
                     after.profiles[i][k] = before.profiles[i][k]
          ELSE after.profiles[i] = before.profiles[i]

\* C30: a setProfileValue(name, key, value) that returns changes, in the Config
\* the next load() returns, nothing but the field key of the first profile that
\* was named name: the other profiles, the other fields of that profile, the
\* number of profiles, currentProfile, defaultTimeout and userAgent are as load()
\* returned them before the call; one that throws leaves the file as it was.
C30_OnlyThatField ==
    [][last'.op = "setProfileValue" =>
            IF last'.threw
            THEN file' = file
            ELSE SameBut(Load(Fresh), Load(Fresh)',
                         FindIndex(Load(Fresh).profiles, last'.name), last'.key)]_vars

\* C30 happens: a setProfileValue returned having changed the file, on a list of
\* two profiles where the named one holds another field and so does the other
C30_Witness ==
    /\ last.op = "setProfileValue" /\ ~last.threw /\ ~last.same
    /\ Len(PersistedProfiles) = 2
    /\ \E i, j \in 1..2 :
          /\ i # j
          /\ PersistedProfiles[i].name = last.name \/ last.key = "name"
          /\ DOMAIN PersistedProfiles[i] \ {"name", last.key} # {}
          /\ DOMAIN PersistedProfiles[j] \ {"name"} # {}
====
